---- MODULE Spec2Model ----
(***************************************************************************)
(* Memory-slot bookkeeping of KvmVm (hypervisor/src/kvm/mod.rs).           *)
(*                                                                         *)
(* Guest physical addresses, sizes and host addresses are counted in       *)
(* pages.  MaxAddr stands for u64::MAX: GuestAddress::checked_add fails    *)
(* exactly when the sum exceeds it.  Slot ids are u32 in the source; the   *)
(* ids reachable here stay far below 2^32, so `as u32` never truncates.    *)
(*                                                                         *)
(* Option<T> is a sequence of length 0 (None) or 1 (Some).  Result<T> is   *)
(* a record [ok, val, err]; errno values are named by their libc names.    *)
(***************************************************************************)
EXTENDS Integers, Sequences, FiniteSets, TLC

VARIABLES
    guest_mem,      \* KvmVm.guest_mem: the fixed regions, in region order
    mem_regions,    \* KvmVm.mem_regions: BTreeMap slot -> owned mapping
    mem_slot_gaps,  \* KvmVm.mem_slot_gaps: BinaryHeap<MemSlot>, kept in pop order
    kernel_slots,   \* the kernel's memory slots of the VM descriptor
    handed_out,     \* history: the slot ids add_memory_region has selected
    last,           \* history: the last call, its arguments, requests and result
    vm,             \* KvmVm.vm: the VM descriptor; None while no VM context exists
    mutexes,        \* the holder of each Mutex of KvmVm, if any
    threads,        \* per thread: the call it is in, its position and its locals
    handles,        \* the KvmVm values alive: each holds two Arc references
    arcs,           \* what the Arc references point to: maps and heaps
    slot_via,       \* history: the handle a slot id was last added and freed through
    kernel_irqchip, \* the kernel: was the in-kernel interrupt controller created
    kernel_irqfds,  \* the kernel: the irqfd registrations of the VM
    kernel_routing, \* the kernel: the GSI routing table of the VM
    kernel_extensions, \* the kernel: its answer to KVM_CHECK_EXTENSION, per capability
    STATE_ONCE,     \* syslog: has the closure of STATE_ONCE.call_once run
    state_ptr,      \* syslog: the logger state the static STATE points to; None while it is null
    vcpus,          \* the vCPU handles alive: their type and the thread that holds each
    fdt,            \* create_fdt: the call in progress, its position and what it wrote
    syslogger       \* syslog: one Syslogger, its buffer and the lines it handed to log()

\* The state of one VM context used by one caller at a time.
mem_vars == <<guest_mem, mem_regions, mem_slot_gaps, kernel_slots, handed_out>>

\* The state added for callers on several threads.
thread_vars == <<mutexes, threads>>

\* The state added for handles made by try_clone.
clone_vars == <<handles, arcs, slot_via>>

\* The kernel's interrupt state of the VM and its extension table.
irq_vars == <<kernel_irqchip, kernel_irqfds, kernel_routing>>

\* The process-wide logger.
log_vars == <<STATE_ONCE, state_ptr>>

\* What lies outside one VM context: the kernel's extension table, the logger,
\* the vCPU handles, the device tree call and the Syslogger writer.
process_vars == <<kernel_extensions, log_vars, vcpus, fdt, syslogger>>

\* What the memory calls on a VM context never touch.
other_vars == <<vm, clone_vars, irq_vars, process_vars>>

vars == <<mem_vars, last, thread_vars, other_vars>>

----------------------------------------------------------------------------
(* Bounds *)

\* The largest guest physical address; stands for u64::MAX.
MaxAddr == 5

\* The largest mapping handed to add_memory_region, in pages.
MaxSize == 2

\* The (read_only, log_dirty_pages) pairs offered to add_memory_region.
FlagInputs == {<<FALSE, FALSE>>, <<TRUE, FALSE>>}

Addrs == 0 .. MaxAddr
Sizes == 1 .. MaxSize
\* Slot ids offered to remove_memory_region: fixed ids, ids that were handed
\* out and ids that never are (fewer than MaxAddr regions fit the space).
SlotArgs == 0 .. MaxAddr

----------------------------------------------------------------------------
(* Values *)

None == <<>>
Some(x) == <<x>>

Ok(v) == [ok |-> TRUE, val |-> v, err |-> ""]
Err(e) == [ok |-> FALSE, val |-> None, err |-> e]

\* The unit value of Ok(()).
Unit == None

\* std::ptr::null_mut()
NullPtr == 0

Range(f) == {f[x] : x \in DOMAIN f}

\* The guest memory descriptions a VM context is built over: two regions
\* with a gap between them and room above, as in tests::add_memory (which
\* uses [0,0x1000) and [0x5000,0xA000)), and a single region that reaches
\* the top of the address space.
GuestLayouts ==
    { << [guest_base |-> 0, size |-> 1], [guest_base |-> 3, size |-> MaxAddr - 4] >>,
      << [guest_base |-> 2, size |-> MaxAddr - 2] >> }

----------------------------------------------------------------------------
(* sys_util: GuestAddress and GuestMemory *)

\* GuestAddress::checked_add: None when the sum does not fit in a u64.
checked_add(addr, size) ==
    IF addr + size > MaxAddr THEN None ELSE Some(addr + size)

region_end(region) == region.guest_base + region.size

\* GuestMemory::range_overlap(start, end): does [start, end) meet a region.
range_overlap(gm, start, end) ==
    \E i \in DOMAIN gm : gm[i].guest_base < end /\ start < region_end(gm[i])

\* GuestMemory::num_regions
num_regions(gm) == Len(gm)

\* The host address GuestMemory maps region `index` (0-based) at.
host_addr(index) == index + 1

\* A mapping handed in by the caller: mmap gives it a host address no live
\* mapping has.  Mappings other than the VM's own are dropped when the call
\* that received them returns, so the live ones are the fixed regions' and
\* those held in mem_regions; the lowest free address is taken.
FreshPtr(gm, regions) ==
    CHOOSE p \in (Len(gm) + 1) .. (Len(gm) + Cardinality(DOMAIN regions) + 1) :
        /\ p \notin {regions[s].ptr : s \in DOMAIN regions}
        /\ \A q \in (Len(gm) + 1) .. (p - 1) :
               q \in {regions[s].ptr : s \in DOMAIN regions}

----------------------------------------------------------------------------
(* The kernel: KVM_SET_USER_MEMORY_REGION on the VM descriptor *)

\* Mutation of MemFlags: the dirty-log bit is never set.
MemFlags_NoDirtyLog(read_only, log_dirty_pages) ==
    IF read_only THEN {"KVM_MEM_READONLY"} ELSE {}

\* set_user_memory_region: the flags word, as the set of the bits set.
MemFlags(read_only, log_dirty_pages) ==
    (IF read_only THEN {"KVM_MEM_READONLY"} ELSE {})
        \cup (IF log_dirty_pages THEN {"KVM_MEM_LOG_DIRTY_PAGES"} ELSE {})

\* set_user_memory_region: the kvm_userspace_memory_region it passes.
UserMemoryRegion(slot, read_only, log_dirty_pages, guest_addr, memory_size, userspace_addr) ==
    [slot |-> slot,
     flags |-> MemFlags(read_only, log_dirty_pages),
     guest_phys_addr |-> guest_addr,
     memory_size |-> memory_size,
     userspace_addr |-> userspace_addr]

\* Do the guest-physical ranges of two registrations meet.
SlotsOverlap(a, b) ==
    /\ a.guest_phys_addr < b.guest_phys_addr + b.memory_size
    /\ b.guest_phys_addr < a.guest_phys_addr + a.memory_size

\* The ioctl's answer and the kernel's slots after it.  A request of size 0
\* deletes the slot and needs it to exist; a request for a new slot is
\* refused when its range meets another slot's; the size of an existing slot
\* cannot change.  `fails` is the kernel running out of a resource: it may
\* refuse any request it would otherwise take.  A refused request changes
\* nothing.
KvmSetUserMemoryRegion(kslots, region, fails) ==
    LET slot == region.slot
        exists == slot \in DOMAIN kslots
        clash == \E o \in DOMAIN kslots \ {slot} : SlotsOverlap(kslots[o], region)
        stored == [x \in {"flags", "guest_phys_addr", "memory_size", "userspace_addr"}
                      |-> region[x]]
        refuse(e) == [res |-> Err(e), kslots |-> kslots]
    IN  IF region.memory_size = 0
        THEN IF ~exists THEN refuse("EINVAL")
             ELSE IF fails THEN refuse("ENOMEM")
             ELSE [res |-> Ok(Unit),
                   kslots |-> [o \in DOMAIN kslots \ {slot} |-> kslots[o]]]
        ELSE IF exists /\ kslots[slot].memory_size # region.memory_size
             THEN refuse("EINVAL")
        ELSE IF clash THEN refuse("EEXIST")
        ELSE IF fails THEN refuse("ENOMEM")
        ELSE [res |-> Ok(Unit),
              kslots |-> [o \in DOMAIN kslots \cup {slot} |->
                             IF o = slot THEN stored ELSE kslots[o]]]

----------------------------------------------------------------------------
(* MemSlot and the BinaryHeap of free slot ids *)

\* u32::cmp
U32Cmp(a, b) == IF a < b THEN "Less" ELSE IF a = b THEN "Equal" ELSE "Greater"

\* Mutation of MemSlotCmp: the order is not inverted (self.0.cmp(&other.0)).
MemSlotCmp_NotInverted(self, other) == U32Cmp(self, other)

\* impl Ord for MemSlot: the order is inverted.
MemSlotCmp(self, other) == U32Cmp(other, self)

\* BinaryHeap::push.  The heap is held as the sequence its pops would give:
\* greatest first, in MemSlot's order.
HeapPush(heap, item) ==
    LET k == Cardinality({i \in 1 .. Len(heap) : MemSlotCmp(heap[i], item) # "Less"})
    IN  SubSeq(heap, 1, k) \o <<item>> \o SubSeq(heap, k + 1, Len(heap))

\* BinaryHeap::pop: the greatest item, if any, and the heap without it.
HeapPop(heap) ==
    IF heap = <<>> THEN [item |-> None, heap |-> heap]
    ELSE [item |-> Some(Head(heap)), heap |-> Tail(heap)]

HeapItems(heap) == Range(heap)

----------------------------------------------------------------------------
(* KvmVm::add_memory_region *)

\* One kernel request of a call, with the kernel's answer.
Request(region, res) == [region |-> region, res |-> res]

\* What a call leaves behind: its result, the bookkeeping, the kernel's
\* slots, the slot id it selected (if it got that far), whether that id was
\* new, and the kernel requests it issued.
Outcome(res, regions, gaps, kslots, sel, minted, reqs) ==
    [res |-> res, regions |-> regions, gaps |-> gaps, kslots |-> kslots,
     sel |-> sel, minted |-> minted, reqs |-> reqs]

\* Mutation of AddPrecheck: the overlap check against guest_mem is missing.
AddPrecheck_NoOverlapCheck(gm, guest_addr, size) ==
    IF checked_add(guest_addr, size) = None THEN Some("EOVERFLOW") ELSE None

\* Mutation of AddPrecheck: the overlap check comes before the overflow
\* check, on the unchecked sum.
AddPrecheck_OverlapFirst(gm, guest_addr, size) ==
    IF range_overlap(gm, guest_addr, guest_addr + size) THEN Some("ENOSPC")
    ELSE IF checked_add(guest_addr, size) = None THEN Some("EOVERFLOW")
    ELSE None

\* The checks before any lock is taken: the error they return, if any.
AddPrecheck(gm, guest_addr, size) ==
    LET end_addr == checked_add(guest_addr, size)
    IN  IF end_addr = None THEN Some("EOVERFLOW")
        ELSE IF range_overlap(gm, guest_addr, end_addr[1]) THEN Some("ENOSPC")
        ELSE None

\* Mutation of SelectSlot: a new id is minted whatever the heap holds.
SelectSlot_AlwaysMint(regions, gaps, gm) ==
    [slot |-> Cardinality(DOMAIN regions) + num_regions(gm), gaps |-> gaps,
     minted |-> TRUE]

\* Mutation of SelectSlot: a new id is the number of active slots alone,
\* without the number of fixed regions.
SelectSlot_NoFixedOffset(regions, gaps, gm) ==
    LET popped == HeapPop(gaps)
    IN  IF popped.item # None
        THEN [slot |-> popped.item[1], gaps |-> popped.heap, minted |-> FALSE]
        ELSE [slot |-> Cardinality(DOMAIN regions), gaps |-> popped.heap, minted |-> TRUE]

\* `match gaps.pop()`: the slot id and the heap after the pop.
SelectSlot(regions, gaps, gm) ==
    LET popped == HeapPop(gaps)
    IN  IF popped.item # None
        THEN [slot |-> popped.item[1], gaps |-> popped.heap, minted |-> FALSE]
        ELSE [slot |-> Cardinality(DOMAIN regions) + num_regions(gm),
              gaps |-> popped.heap, minted |-> TRUE]

\* BTreeMap::insert
MapInsert(regions, slot, mem) ==
    [s \in DOMAIN regions \cup {slot} |-> IF s = slot THEN mem ELSE regions[s]]

\* Mutation of AddCommit: the early return on a kernel error is missing, so
\* the mapping is inserted whatever the kernel answered.
AddCommit_InsertAnyway(regions, gaps, slot, mem, kres) ==
    [res |-> Ok(Some(slot)), regions |-> MapInsert(regions, slot, mem), gaps |-> gaps]

\* Mutation of AddCommit: on a kernel error the slot id is not pushed back.
AddCommit_Leak(regions, gaps, slot, mem, kres) ==
    IF ~kres.ok
    THEN [res |-> kres, regions |-> regions, gaps |-> gaps]
    ELSE [res |-> Ok(Some(slot)), regions |-> MapInsert(regions, slot, mem), gaps |-> gaps]

\* After the kernel answered: on an error the slot id goes back to the heap
\* and the error is returned; otherwise the mapping is kept under the slot id.
AddCommit(regions, gaps, slot, mem, kres) ==
    IF ~kres.ok
    THEN [res |-> kres, regions |-> regions, gaps |-> HeapPush(gaps, slot)]
    ELSE [res |-> Ok(Some(slot)), regions |-> MapInsert(regions, slot, mem), gaps |-> gaps]

add_memory_region(gm, regions, gaps, kslots, guest_addr, mem, read_only, log_dirty_pages, fails) ==
    LET size == mem.size
        early == AddPrecheck(gm, guest_addr, size)
    IN  IF early # None
        THEN Outcome(Err(early[1]), regions, gaps, kslots, None, FALSE, <<>>)
        ELSE LET sel == SelectSlot(regions, gaps, gm)
                 region == UserMemoryRegion(sel.slot, read_only, log_dirty_pages,
                                            guest_addr, size, mem.ptr)
                 k == KvmSetUserMemoryRegion(kslots, region, fails)
                 c == AddCommit(regions, sel.gaps, sel.slot, mem, k.res)
             IN  Outcome(c.res, c.regions, c.gaps, k.kslots, Some(sel.slot),
                         sel.minted, <<Request(region, k.res)>>)

----------------------------------------------------------------------------
(* KvmVm::remove_memory_region *)

\* BTreeMap::remove
MapRemove(regions, slot) == [s \in DOMAIN regions \ {slot} |-> regions[s]]

\* The request that clears a slot.
ClearRegion(slot) == UserMemoryRegion(slot, FALSE, FALSE, 0, 0, NullPtr)

\* Mutation of RemoveCommit: the mapping stays in the map.
RemoveCommit_KeepMapping(regions, gaps, slot, kres) ==
    IF ~kres.ok
    THEN [res |-> kres, regions |-> regions, gaps |-> gaps]
    ELSE [res |-> Ok(Unit), regions |-> regions, gaps |-> HeapPush(gaps, slot)]

\* Mutation of RemoveCommit: the kernel's error is ignored (no `?`).
RemoveCommit_IgnoreError(regions, gaps, slot, kres) ==
    [res |-> Ok(Unit), regions |-> MapRemove(regions, slot),
     gaps |-> HeapPush(gaps, slot)]

\* Mutation of RemoveCommit: the freed slot id is not pushed on the heap.
RemoveCommit_NoPush(regions, gaps, slot, kres) ==
    IF ~kres.ok
    THEN [res |-> kres, regions |-> regions, gaps |-> gaps]
    ELSE [res |-> Ok(Unit), regions |-> MapRemove(regions, slot), gaps |-> gaps]

\* Mutation of RemoveCommit: the mapping leaves the map before the kernel is
\* asked, and is not put back when the kernel refuses.
RemoveCommit_DropFirst(regions, gaps, slot, kres) ==
    IF ~kres.ok
    THEN [res |-> kres, regions |-> MapRemove(regions, slot), gaps |-> gaps]
    ELSE [res |-> Ok(Unit), regions |-> MapRemove(regions, slot),
          gaps |-> HeapPush(gaps, slot)]

\* After the kernel answered: `?` returns its error; otherwise the slot id
\* is pushed on the heap and the mapping leaves the map (and is dropped).
RemoveCommit(regions, gaps, slot, kres) ==
    IF ~kres.ok
    THEN [res |-> kres, regions |-> regions, gaps |-> gaps]
    ELSE [res |-> Ok(Unit), regions |-> MapRemove(regions, slot),
          gaps |-> HeapPush(gaps, slot)]

\* Mutation of RemoveCheck: the membership check is missing.
RemoveCheck_Missing(regions, slot) == TRUE

\* `regions.contains_key(&slot)`
RemoveCheck(regions, slot) == slot \in DOMAIN regions

remove_memory_region(regions, gaps, kslots, slot, fails) ==
    IF ~RemoveCheck(regions, slot)
    THEN Outcome(Err("ENOENT"), regions, gaps, kslots, None, FALSE, <<>>)
    ELSE LET region == ClearRegion(slot)
             k == KvmSetUserMemoryRegion(kslots, region, fails)
             c == RemoveCommit(regions, gaps, slot, k.res)
         IN  Outcome(c.res, c.regions, c.gaps, k.kslots, None, FALSE,
                     <<Request(region, k.res)>>)

----------------------------------------------------------------------------
(* KvmVm::msync_memory_region *)

\* What MappedRegion::msync can answer for a range inside the mapping: the
\* flush is done, or the mapping reports a misaligned range, a failed
\* system call (with its errno) or another mapping error.
\* A mapping error is a tuple: the variant's name, then its payload.
MsyncAnswers ==
    {Ok(Unit), Err(<<"NotPageAligned">>), Err(<<"SystemCallFailed", "EBUSY">>),
     Err(<<"InvalidRange">>)}

\* MappedRegion::msync(offset, size): a range that does not lie inside the
\* mapping is refused as an invalid address; otherwise `answer`.  A range of
\* size 0 that starts at the end of the mapping lies inside it.
MappedRegionMsync(mem, offset, size, answer) ==
    IF offset + size > mem.size THEN Err(<<"InvalidAddress">>) ELSE answer

\* `.map_err(|err| match err { .. })`: the mapping's error as an errno.
MsyncErrno(r) ==
    IF r.ok THEN r
    ELSE IF r.err[1] = "InvalidAddress" THEN Err("EFAULT")
    ELSE IF r.err[1] = "NotPageAligned" THEN Err("EINVAL")
    ELSE IF r.err[1] = "SystemCallFailed" THEN Err(r.err[2])
    ELSE Err("EIO")

\* Mutation of MsyncLookup: a slot id that is not a key is looked up in
\* the map as if it were the lowest key.
MsyncLookup_AnyMapping(regions, slot) ==
    IF slot \in DOMAIN regions THEN Some(regions[slot])
    ELSE IF DOMAIN regions = {} THEN None
    ELSE Some(regions[CHOOSE s \in DOMAIN regions : \A t \in DOMAIN regions : s <= t])

\* `regions.get_mut(&slot)`
MsyncLookup(regions, slot) ==
    IF slot \in DOMAIN regions THEN Some(regions[slot]) ELSE None

\* The result of the call; it changes neither the bookkeeping nor the
\* kernel's slots, and issues no request to the VM descriptor.
msync_memory_region(regions, slot, offset, size, answer) ==
    LET mem == MsyncLookup(regions, slot)
    IN  IF mem = None THEN Err("ENOENT")
        ELSE MsyncErrno(MappedRegionMsync(mem[1], offset, size, answer))

----------------------------------------------------------------------------
(* The state machine *)

\* The record of a call.
Call(op, slot, guest_addr, mem, out) ==
    [op |-> op, slot |-> slot, guest_addr |-> guest_addr, mem |-> mem,
     res |-> out.res, sel |-> out.sel, minted |-> out.minted,
     reqs |-> out.reqs]

\* No call is in progress on any thread: the sequential specifications stay
\* here.
NoThreads ==
    /\ mutexes = [m \in {"mem_regions", "mem_slot_gaps"} |-> None]
    /\ threads = <<>>

\* No handle was made by try_clone.
NoClones ==
    /\ handles = <<>>
    /\ arcs = [regions |-> <<>>, gaps |-> <<>>]
    /\ slot_via = <<>>

\* No interrupt call was made on the VM descriptor.
NoIrqs ==
    /\ kernel_irqchip = FALSE
    /\ kernel_irqfds = {}
    /\ kernel_routing = <<>>

\* No capability is asked for.
NoCaps == kernel_extensions = <<>>

\* The logger is not used: syslog::init() was never called.
NoLog == STATE_ONCE = "new" /\ state_ptr = None

\* No vCPU handle exists.
NoVcpus == vcpus = <<>>

\* No call of create_fdt.
NoFdt == fdt = <<>>

\* No Syslogger was constructed.
NoSyslogger == syslogger = <<>>

\* Nothing outside the VM context is used.
NoProcess == NoCaps /\ NoLog /\ NoVcpus /\ NoFdt /\ NoSyslogger

\* KvmVm::new succeeded: region i of guest_mem is registered under slot i,
\* read-write and without dirty logging; the map and the heap are empty.
InitVm ==
    /\ guest_mem \in GuestLayouts
    /\ mem_regions = <<>>
    /\ mem_slot_gaps = <<>>
    /\ kernel_slots =
         [i \in 0 .. (Len(guest_mem) - 1) |->
             [flags |-> MemFlags(FALSE, FALSE),
              guest_phys_addr |-> guest_mem[i + 1].guest_base,
              memory_size |-> guest_mem[i + 1].size,
              userspace_addr |-> host_addr(i)]]
    /\ handed_out = {}
    /\ vm = Some("vm")
    /\ last = [op |-> "new", slot |-> None, guest_addr |-> None, mem |-> None,
               res |-> Ok(Unit), sel |-> None, minted |-> FALSE,
               reqs |-> <<>>]

Init == InitVm /\ NoThreads /\ NoClones /\ NoIrqs /\ NoProcess

AddMemoryRegion(guest_addr, size, read_only, log_dirty_pages, fails) ==
    LET mem == [ptr |-> FreshPtr(guest_mem, mem_regions), size |-> size]
        out == add_memory_region(guest_mem, mem_regions, mem_slot_gaps, kernel_slots,
                                 guest_addr, mem, read_only, log_dirty_pages, fails)
    IN  /\ mem_regions' = out.regions
        /\ mem_slot_gaps' = out.gaps
        /\ kernel_slots' = out.kslots
        /\ handed_out' = handed_out \cup Range(out.sel)
        /\ last' = Call("add", None, Some(guest_addr), Some(mem), out)
        /\ UNCHANGED <<guest_mem, thread_vars, other_vars>>

RemoveMemoryRegion(slot, fails) ==
    LET out == remove_memory_region(mem_regions, mem_slot_gaps, kernel_slots, slot, fails)
    IN  /\ mem_regions' = out.regions
        /\ mem_slot_gaps' = out.gaps
        /\ kernel_slots' = out.kslots
        /\ last' = Call("remove", Some(slot), None, None, out)
        /\ UNCHANGED <<guest_mem, handed_out, thread_vars, other_vars>>

Next ==
    \/ \E guest_addr \in Addrs, size \in Sizes, flags \in FlagInputs, fails \in BOOLEAN :
           AddMemoryRegion(guest_addr, size, flags[1], flags[2], fails)
    \/ \E slot \in SlotArgs, fails \in BOOLEAN : RemoveMemoryRegion(slot, fails)

Spec == Init /\ [][Next]_vars

----------------------------------------------------------------------------
(* Calls on several threads *)

\* KvmVm is Send + Sync through its Arc<Mutex<..>> fields: the threads that
\* call into one VM context.
Threads == {"t1", "t2"}

\* The guest addresses and the mapping size the threads offer to
\* add_memory_region, and the range they offer to msync_memory_region.
ThreadAddrs == {0, 1}
ThreadSize == 1
ThreadRange == <<0, 1>>

\* The slot ids they offer to remove_memory_region and msync_memory_region:
\* the first two an add can return.
ThreadSlots == num_regions(guest_mem) .. (num_regions(guest_mem) + 1)

\* Mutation of AddProgram: the slot id is selected before the locks are taken.
AddProgram_SelectFirst ==
    <<"select", "lock mem_regions", "lock mem_slot_gaps", "ioctl", "commit", "return">>

\* The steps of a call, in program order.  A Mutex guard bound by `let` is
\* dropped when the function returns ("return" releases what the thread still
\* holds); the guard of `self.mem_slot_gaps.lock().push(..)` is a temporary
\* and is dropped at the end of that statement.
AddProgram ==
    <<"lock mem_regions", "lock mem_slot_gaps", "select", "ioctl", "commit", "return">>

\* Mutation of RemoveProgram: the pool is locked first, for the whole call.
RemoveProgram_PoolFirst ==
    <<"lock mem_slot_gaps", "lock mem_regions", "check", "ioctl", "push",
      "remove", "return">>

\* Mutation of RemoveProgram: the map lock is dropped after the membership
\* check and taken again for the removal from the map.
RemoveProgram_UnlockAfterCheck ==
    <<"lock mem_regions", "check", "unlock mem_regions", "ioctl", "lock mem_slot_gaps",
      "push", "unlock mem_slot_gaps", "lock mem_regions", "remove", "return">>

RemoveProgram ==
    <<"lock mem_regions", "check", "ioctl", "lock mem_slot_gaps", "push",
      "unlock mem_slot_gaps", "remove", "return">>

MsyncProgram == <<"lock mem_regions", "msync", "return">>

Program(op) ==
    CASE op = "add" -> AddProgram
      [] op = "remove" -> RemoveProgram
      [] op = "msync" -> MsyncProgram
      [] OTHER -> <<>>

MutexOf(ins) ==
    IF ins \in {"lock mem_regions", "unlock mem_regions"}
    THEN "mem_regions" ELSE "mem_slot_gaps"

\* A thread outside any call.
Idle ==
    [op |-> "idle", pc |-> 0, slot |-> None, guest_addr |-> None, mem |-> None,
     sel |-> None, kres |-> None, res |-> None]

\* The step thread t is at.
Ins(t) ==
    IF threads[t].op = "idle" THEN "none" ELSE Program(threads[t].op)[threads[t].pc]

Holds(t, mutex) == mutexes[mutex] = Some(t)

Advance(th) == [th EXCEPT !.pc = @ + 1]

\* An early `return Err(..)` / `?`: on to the end of the function.
Bail(th, res) == [th EXCEPT !.pc = Len(Program(th.op)), !.res = Some(res)]

\* The host address of a mapping a thread brings along: one that no live
\* mapping has, whether held by the map or by a call in progress.
ThreadFreshPtr ==
    LET used == {mem_regions[s].ptr : s \in DOMAIN mem_regions}
                  \cup {threads[u].mem[1].ptr : u \in {v \in Threads : threads[v].mem # None}}
        base == Len(guest_mem) + 1
    IN  CHOOSE p \in base .. (base + Cardinality(used)) :
            p \notin used /\ \A q \in base .. (p - 1) : q \in used

InitThreads ==
    /\ InitVm
    /\ mutexes = [m \in {"mem_regions", "mem_slot_gaps"} |-> None]
    /\ threads = [t \in Threads |-> Idle]
    /\ NoClones /\ NoIrqs /\ NoProcess

\* add_memory_region is entered and passes its checks (a call that fails
\* them returns at once, having touched nothing).
BeginAdd(t, guest_addr) ==
    /\ threads[t].op = "idle"
    /\ AddPrecheck(guest_mem, guest_addr, ThreadSize) = None
    /\ threads' = [threads EXCEPT ![t] =
           [Idle EXCEPT !.op = "add", !.pc = 1, !.guest_addr = Some(guest_addr),
                        !.mem = Some([ptr |-> ThreadFreshPtr, size |-> ThreadSize])]]
    /\ UNCHANGED <<mem_vars, last, other_vars, mutexes>>

BeginRemove(t, slot) ==
    /\ threads[t].op = "idle"
    /\ threads' = [threads EXCEPT ![t] =
           [Idle EXCEPT !.op = "remove", !.pc = 1, !.slot = Some(slot)]]
    /\ UNCHANGED <<mem_vars, last, other_vars, mutexes>>

BeginMsync(t, slot) ==
    /\ threads[t].op = "idle"
    /\ threads' = [threads EXCEPT ![t] =
           [Idle EXCEPT !.op = "msync", !.pc = 1, !.slot = Some(slot)]]
    /\ UNCHANGED <<mem_vars, last, other_vars, mutexes>>

\* Mutex::lock: waits until the mutex is free (also when the caller itself
\* holds it).
ThreadLock(t) ==
    /\ Ins(t) \in {"lock mem_regions", "lock mem_slot_gaps"}
    /\ mutexes[MutexOf(Ins(t))] = None
    /\ mutexes' = [mutexes EXCEPT ![MutexOf(Ins(t))] = Some(t)]
    /\ threads' = [threads EXCEPT ![t] = Advance(@)]
    /\ UNCHANGED <<mem_vars, last, other_vars>>

ThreadUnlock(t) ==
    /\ Ins(t) \in {"unlock mem_regions", "unlock mem_slot_gaps"}
    /\ mutexes' = [mutexes EXCEPT ![MutexOf(Ins(t))] = None]
    /\ threads' = [threads EXCEPT ![t] = Advance(@)]
    /\ UNCHANGED <<mem_vars, last, other_vars>>

ThreadSelect(t) ==
    /\ Ins(t) = "select"
    /\ LET sel == SelectSlot(mem_regions, mem_slot_gaps, guest_mem)
       IN  /\ mem_slot_gaps' = sel.gaps
           /\ handed_out' = handed_out \cup {sel.slot}
           /\ threads' = [threads EXCEPT ![t] = Advance([@ EXCEPT !.sel = Some(sel.slot)])]
    /\ UNCHANGED <<guest_mem, mem_regions, kernel_slots, last, other_vars, mutexes>>

\* The kernel request of the call; the kernel takes one request at a time.
ThreadIoctl(t, fails) ==
    /\ Ins(t) = "ioctl"
    /\ LET th == threads[t]
           region == IF th.op = "add"
                     THEN UserMemoryRegion(th.sel[1], FALSE, FALSE, th.guest_addr[1],
                                           th.mem[1].size, th.mem[1].ptr)
                     ELSE ClearRegion(th.slot[1])
           k == KvmSetUserMemoryRegion(kernel_slots, region, fails)
           got == [th EXCEPT !.kres = Some(k.res)]
       IN  /\ kernel_slots' = k.kslots
           /\ threads' = [threads EXCEPT ![t] =
                  IF th.op = "remove" /\ ~k.res.ok THEN Bail(got, k.res) ELSE Advance(got)]
    /\ UNCHANGED <<guest_mem, mem_regions, mem_slot_gaps, handed_out, last, other_vars, mutexes>>

ThreadCommit(t) ==
    /\ Ins(t) = "commit"
    /\ LET th == threads[t]
           c == AddCommit(mem_regions, mem_slot_gaps, th.sel[1], th.mem[1], th.kres[1])
       IN  /\ mem_regions' = c.regions
           /\ mem_slot_gaps' = c.gaps
           /\ threads' = [threads EXCEPT ![t] = Advance([@ EXCEPT !.res = Some(c.res)])]
    /\ UNCHANGED <<guest_mem, kernel_slots, handed_out, last, other_vars, mutexes>>

ThreadCheck(t) ==
    /\ Ins(t) = "check"
    /\ threads' = [threads EXCEPT ![t] =
           IF RemoveCheck(mem_regions, @.slot[1]) THEN Advance(@)
           ELSE Bail(@, Err("ENOENT"))]
    /\ UNCHANGED <<mem_vars, last, other_vars, mutexes>>

ThreadPush(t) ==
    /\ Ins(t) = "push"
    /\ LET th == threads[t]
       IN  mem_slot_gaps' =
               RemoveCommit(mem_regions, mem_slot_gaps, th.slot[1], th.kres[1]).gaps
    /\ threads' = [threads EXCEPT ![t] = Advance(@)]
    /\ UNCHANGED <<guest_mem, mem_regions, kernel_slots, handed_out, last, other_vars, mutexes>>

ThreadRemoveMapping(t) ==
    /\ Ins(t) = "remove"
    /\ LET th == threads[t]
           c == RemoveCommit(mem_regions, mem_slot_gaps, th.slot[1], th.kres[1])
       IN  /\ mem_regions' = c.regions
           /\ threads' = [threads EXCEPT ![t] = Advance([@ EXCEPT !.res = Some(c.res)])]
    /\ UNCHANGED <<guest_mem, mem_slot_gaps, kernel_slots, handed_out, last, other_vars, mutexes>>

ThreadMsync(t, answer) ==
    /\ Ins(t) = "msync"
    /\ LET th == threads[t]
           res == msync_memory_region(mem_regions, th.slot[1], ThreadRange[1],
                                      ThreadRange[2], answer)
       IN  threads' = [threads EXCEPT ![t] = Advance([th EXCEPT !.res = Some(res)])]
    /\ UNCHANGED <<mem_vars, last, other_vars, mutexes>>

\* The function returns: the guards still alive are dropped.
ThreadReturn(t) ==
    /\ Ins(t) = "return"
    /\ mutexes' = [m \in DOMAIN mutexes |-> IF mutexes[m] = Some(t) THEN None ELSE mutexes[m]]
    /\ threads' = [threads EXCEPT ![t] = Idle]
    /\ UNCHANGED <<mem_vars, last, other_vars>>

\* A step of the call thread t is in.
ThreadStep(t) ==
    \/ ThreadLock(t)
    \/ ThreadUnlock(t)
    \/ ThreadSelect(t)
    \/ \E fails \in BOOLEAN : ThreadIoctl(t, fails)
    \/ ThreadCommit(t)
    \/ ThreadCheck(t)
    \/ ThreadPush(t)
    \/ ThreadRemoveMapping(t)
    \/ \E answer \in MsyncAnswers : ThreadMsync(t, answer)
    \/ ThreadReturn(t)

NextThreads ==
    \E t \in Threads :
        \/ \E guest_addr \in ThreadAddrs : BeginAdd(t, guest_addr)
        \/ \E slot \in ThreadSlots : BeginRemove(t, slot)
        \/ \E slot \in ThreadSlots : BeginMsync(t, slot)
        \/ ThreadStep(t)

SpecThreads == InitThreads /\ [][NextThreads]_vars

----------------------------------------------------------------------------
(* The memory calls with every combination of flags *)

\* add_memory_region as in AddMemoryRegion; the record of the call also
\* holds the two flags the caller gave.
AddMemoryRegionFlags(guest_addr, size, read_only, log_dirty_pages, fails) ==
    LET mem == [ptr |-> FreshPtr(guest_mem, mem_regions), size |-> size]
        out == add_memory_region(guest_mem, mem_regions, mem_slot_gaps, kernel_slots,
                                 guest_addr, mem, read_only, log_dirty_pages, fails)
    IN  /\ mem_regions' = out.regions
        /\ mem_slot_gaps' = out.gaps
        /\ kernel_slots' = out.kslots
        /\ handed_out' = handed_out \cup Range(out.sel)
        /\ last' = Call("add", None, Some(guest_addr), Some(mem), out)
                       @@ [read_only |-> read_only, log_dirty_pages |-> log_dirty_pages]
        /\ UNCHANGED <<guest_mem, thread_vars, other_vars>>

\* The guest addresses offered here: in either layout of GuestLayouts one
\* of them at least lies outside the fixed regions.
FlagAddrs == {1, 2}

\* Mappings of one page with every combination of flags, and the removal
\* of the first two ids an add can return.
NextFlags ==
    \/ \E guest_addr \in FlagAddrs, read_only \in BOOLEAN, log_dirty_pages \in BOOLEAN,
          fails \in BOOLEAN :
           AddMemoryRegionFlags(guest_addr, ThreadSize, read_only, log_dirty_pages, fails)
    \/ \E slot \in ThreadSlots, fails \in BOOLEAN : RemoveMemoryRegion(slot, fails)

SpecFlags == Init /\ [][NextFlags]_vars

----------------------------------------------------------------------------
(* KvmVm::try_clone *)

\* The most KvmVm values alive at once.
MaxHandles == 2

\* Here the map and the heap of a KvmVm are held in `arcs`, and a handle is
\* the pair of its Arc references (indices into arcs.regions and arcs.gaps);
\* the descriptor a clone gets from vm.try_clone() is a duplicate, so all
\* handles speak to the one kernel VM (kernel_slots), and guest_mem.clone()
\* describes the same guest memory.

\* Mutation of try_clone: the clone gets a map and a heap of its own, with
\* the contents copied (Arc::new(Mutex::new(..)) of a copy).
try_clone_OwnBookkeeping(handle, store) ==
    [handle |-> [mem_regions |-> Len(store.regions) + 1,
                 mem_slot_gaps |-> Len(store.gaps) + 1],
     arcs |-> [regions |-> Append(store.regions, store.regions[handle.mem_regions]),
               gaps |-> Append(store.gaps, store.gaps[handle.mem_slot_gaps])]]

\* The new handle: mem_regions.clone() and mem_slot_gaps.clone() are
\* Arc::clone, new references to the same map and heap.
try_clone(handle, store) ==
    [handle |-> [mem_regions |-> handle.mem_regions,
                 mem_slot_gaps |-> handle.mem_slot_gaps],
     arcs |-> store]

HandleRegions(h) == arcs.regions[handles[h].mem_regions]
HandleGaps(h) == arcs.gaps[handles[h].mem_slot_gaps]

\* The record of a call with the handle it was made through.
Via(h, call) ==
    [x \in DOMAIN call \cup {"handle"} |-> IF x = "handle" THEN h ELSE call[x]]

\* The record of a call of msync_memory_region: it issues no request to the
\* VM descriptor.
MsyncCall(slot, offset, size, res) ==
    [op |-> "msync", slot |-> Some(slot), offset |-> offset, size |-> size,
     res |-> res, reqs |-> <<>>]

InitClone ==
    /\ InitVm /\ NoThreads /\ NoIrqs /\ NoProcess
    /\ handles = << [mem_regions |-> 1, mem_slot_gaps |-> 1] >>
    /\ arcs = [regions |-> << <<>> >>, gaps |-> << <<>> >>]
    /\ slot_via = <<>>

\* `vm.try_clone()?` fails when the descriptor cannot be duplicated.
CloneTryClone(h, fails) ==
    /\ h \in DOMAIN handles
    /\ Len(handles) < MaxHandles
    /\ LET c == try_clone(handles[h], arcs)
       IN  IF fails
           THEN /\ last' = [op |-> "try_clone", handle |-> h, res |-> Err("EMFILE"),
                            reqs |-> <<>>]
                /\ UNCHANGED <<handles, arcs>>
           ELSE /\ handles' = Append(handles, c.handle)
                /\ arcs' = c.arcs
                /\ last' = [op |-> "try_clone", handle |-> h,
                            res |-> Ok(Len(handles) + 1), reqs |-> <<>>]
    /\ UNCHANGED <<mem_vars, slot_via, vm, thread_vars, irq_vars, process_vars>>

CloneAdd(h, guest_addr, fails) ==
    h \in DOMAIN handles /\
    LET mem == [ptr |-> FreshPtr(guest_mem, HandleRegions(h)), size |-> ThreadSize]
        out == add_memory_region(guest_mem, HandleRegions(h), HandleGaps(h), kernel_slots,
                                 guest_addr, mem, FALSE, FALSE, fails)
    IN  /\ arcs' = [regions |-> [arcs.regions EXCEPT ![handles[h].mem_regions] = out.regions],
                    gaps |-> [arcs.gaps EXCEPT ![handles[h].mem_slot_gaps] = out.gaps]]
        /\ kernel_slots' = out.kslots
        /\ handed_out' = handed_out \cup Range(out.sel)
        /\ slot_via' =
             IF ~out.res.ok THEN slot_via
             ELSE LET s == out.sel[1]
                  IN  [x \in DOMAIN slot_via \cup {s} |->
                          IF x # s THEN slot_via[x]
                          ELSE [added |-> h,
                                freed |-> IF s \in DOMAIN slot_via
                                          THEN slot_via[s].freed ELSE None]]
        /\ last' = Via(h, Call("add", None, Some(guest_addr), Some(mem), out))
        /\ UNCHANGED <<guest_mem, mem_regions, mem_slot_gaps, handles, vm, thread_vars,
                       irq_vars, process_vars>>

CloneRemove(h, slot, fails) ==
    h \in DOMAIN handles /\
    LET out == remove_memory_region(HandleRegions(h), HandleGaps(h), kernel_slots, slot, fails)
    IN  /\ arcs' = [regions |-> [arcs.regions EXCEPT ![handles[h].mem_regions] = out.regions],
                    gaps |-> [arcs.gaps EXCEPT ![handles[h].mem_slot_gaps] = out.gaps]]
        /\ kernel_slots' = out.kslots
        /\ slot_via' =
             IF out.res.ok /\ slot \in DOMAIN slot_via
             THEN [slot_via EXCEPT ![slot].freed = Some(h)] ELSE slot_via
        /\ last' = Via(h, Call("remove", Some(slot), None, None, out))
        /\ UNCHANGED <<guest_mem, mem_regions, mem_slot_gaps, handed_out, handles, vm,
                       thread_vars, irq_vars, process_vars>>

CloneMsync(h, slot, answer) ==
    /\ h \in DOMAIN handles
    /\ last' = Via(h, MsyncCall(slot, ThreadRange[1], ThreadRange[2],
                       msync_memory_region(HandleRegions(h), slot, ThreadRange[1],
                                           ThreadRange[2], answer)))
    /\ UNCHANGED <<mem_vars, clone_vars, vm, thread_vars, irq_vars, process_vars>>

\* The kernel refuses here only the requests it has to (an overlap); what
\* the calls do when it runs out of a resource is covered by Spec.
NextClone ==
    \E h \in 1 .. MaxHandles :
        \/ \E fails \in BOOLEAN : CloneTryClone(h, fails)
        \/ \E guest_addr \in ThreadAddrs : CloneAdd(h, guest_addr, FALSE)
        \/ \E slot \in ThreadSlots : CloneRemove(h, slot, FALSE)
        \/ \E slot \in ThreadSlots : CloneMsync(h, slot, Ok(Unit))

SpecClone == InitClone /\ [][NextClone]_vars

----------------------------------------------------------------------------
(* KvmVm::new *)

\* Mutation of FixedRegion: slot ids are counted from 1.
FixedRegion_FromOne(gm, index) ==
    UserMemoryRegion(index + 1, FALSE, FALSE, gm[index + 1].guest_base,
                     gm[index + 1].size, host_addr(index))

\* The closure handed to with_regions: the request for region `index`
\* (counted from 0), read-write and without dirty logging.
FixedRegion(gm, index) ==
    UserMemoryRegion(index, FALSE, FALSE, gm[index + 1].guest_base,
                     gm[index + 1].size, host_addr(index))

\* GuestMemory::with_regions: the closure is called on the regions in order,
\* from `index` on, and the first error ends the walk.  `refused` holds the
\* indices at which the kernel has run out of a resource.
RECURSIVE with_regions(_, _, _, _, _)
with_regions(gm, index, kslots, refused, reqs) ==
    IF index >= num_regions(gm) THEN [res |-> Ok(Unit), kslots |-> kslots, reqs |-> reqs]
    ELSE LET region == FixedRegion(gm, index)
             k == KvmSetUserMemoryRegion(kslots, region, index \in refused)
             done == Append(reqs, Request(region, k.res))
         IN  IF ~k.res.ok THEN [res |-> k.res, kslots |-> k.kslots, reqs |-> done]
             ELSE with_regions(gm, index + 1, k.kslots, refused, done)

\* KvmVm::new: KVM_CREATE_VM, then the fixed regions.  When it fails the new
\* descriptor is dropped, and the kernel's VM with it.
KvmVmNew(gm, create_fails, refused) ==
    IF create_fails
    THEN [res |-> Err("ENOMEM"), create |-> Err("ENOMEM"), kslots |-> <<>>, reqs |-> <<>>]
    ELSE LET r == with_regions(gm, 0, <<>>, refused, <<>>)
         IN  [res |-> r.res, create |-> Ok(Unit),
              kslots |-> IF r.res.ok THEN r.kslots ELSE <<>>, reqs |-> r.reqs]

\* No VM context exists yet; the guest memory it will be built over does.
InitNew ==
    /\ guest_mem \in GuestLayouts
    /\ mem_regions = <<>>
    /\ mem_slot_gaps = <<>>
    /\ kernel_slots = <<>>
    /\ handed_out = {}
    /\ vm = None
    /\ last = [op |-> "none", res |-> Ok(Unit), reqs |-> <<>>]
    /\ NoThreads /\ NoClones /\ NoIrqs /\ NoProcess

New(create_fails, refused) ==
    /\ vm = None
    /\ LET out == KvmVmNew(guest_mem, create_fails, refused)
       IN  /\ vm' = IF out.res.ok THEN Some("vm") ELSE None
           /\ kernel_slots' = out.kslots
           /\ last' = [op |-> "new", res |-> out.res, create |-> out.create,
                       reqs |-> out.reqs]
    /\ UNCHANGED <<guest_mem, mem_regions, mem_slot_gaps, handed_out, thread_vars,
                   clone_vars, irq_vars, process_vars>>

NextNew ==
    \/ \E create_fails \in BOOLEAN, refused \in SUBSET (0 .. 1) : New(create_fails, refused)
    \/ \E guest_addr \in Addrs, fails \in BOOLEAN :
           vm # None /\ AddMemoryRegion(guest_addr, ThreadSize, FALSE, FALSE, fails)
    \/ \E slot \in SlotArgs :
           vm # None /\ RemoveMemoryRegion(slot, FALSE)

SpecNew == InitNew /\ [][NextNew]_vars

----------------------------------------------------------------------------
(* msync_memory_region among adds and removes *)

\* The slot ids offered to msync_memory_region: ids of fixed regions, ids
\* that were handed out and ids that never are.
MsyncSlots == 0 .. 3

\* The offsets and sizes offered: inside, at the end of and beyond the
\* largest mapping.
MsyncOffsets == 0 .. (MaxSize + 1)
MsyncSizes == 0 .. 1

MsyncMemoryRegion(slot, offset, size, answer) ==
    /\ last' = MsyncCall(slot, offset, size,
                         msync_memory_region(mem_regions, slot, offset, size, answer))
    /\ UNCHANGED <<mem_vars, thread_vars, other_vars>>

\* The kernel refuses here only the requests it has to.
NextMsync ==
    \/ \E guest_addr \in ThreadAddrs, size \in Sizes :
           AddMemoryRegion(guest_addr, size, FALSE, FALSE, FALSE)
    \/ \E slot \in ThreadSlots : RemoveMemoryRegion(slot, FALSE)
    \/ \E slot \in MsyncSlots, offset \in MsyncOffsets, size \in MsyncSizes,
          answer \in MsyncAnswers :
           MsyncMemoryRegion(slot, offset, size, answer)

SpecMsync == Init /\ [][NextMsync]_vars

----------------------------------------------------------------------------
(* Interrupt plumbing: create_irq_chip, set_irq_line, register_irqfd,
   unregister_irqfd, set_gsi_routing *)

\* The gsi numbers and the EventFds (by raw descriptor) offered, as in
\* tests::register_irqfd; the interrupt lines offered to set_irq_line.
Gsis == {4, 8}
Events == {10, 11}
IrqLines == {1}

\* The most routes handed to set_gsi_routing.
MaxRoutes == 2

\* 2^32, the span of the low half of an MSI address, scaled down.
Word == 4

\* The routes offered: one through an interrupt-controller pin, one
\* message-signaled with an address above the low half.
RouteInputs ==
    { [gsi |-> 4, source |-> [kind |-> "Irqchip", chip |-> "Ioapic", pin |-> 3]],
      [gsi |-> 8, source |-> [kind |-> "Msi", address |-> Word + 1, data |-> 2]] }

RoutesUpTo(n) == UNION {[1 .. k -> RouteInputs] : k \in 0 .. n}

\* One ioctl on the VM descriptor, with the kernel's answer.
IoctlRequest(ioctl, arg, res) == [ioctl |-> ioctl, arg |-> arg, res |-> res]

\* What an interrupt call leaves behind: its result, the kernel state it is
\* about, and the requests it issued.
IrqOutcome(res, state, reqs) == [res |-> res, state |-> state, reqs |-> reqs]

\* The kernel, KVM_CREATE_IRQCHIP: a VM has at most one in-kernel controller.
KvmCreateIrqchip(chip, fails) ==
    IF chip THEN [res |-> Err("EEXIST"), chip |-> chip]
    ELSE IF fails THEN [res |-> Err("ENOMEM"), chip |-> chip]
    ELSE [res |-> Ok(Unit), chip |-> TRUE]

\* The kernel, KVM_IRQ_LINE: needs the in-kernel controller.
KvmIrqLine(chip, irq_level) ==
    IF chip THEN Ok(Unit) ELSE Err("ENXIO")

\* The kernel, KVM_IRQFD (Linux virt/kvm/eventfd.c).  A request with the
\* deassign flag shuts down every registration that matches fd and gsi and
\* reports success whether or not there was one.  Any other request
\* registers the eventfd, unless the eventfd is registered already (EBUSY);
\* `fails` is the kernel running out of a resource.
KvmIrqfd(irqfds, irqfd, fails) ==
    IF "KVM_IRQFD_FLAG_DEASSIGN" \in irqfd.flags
    THEN [res |-> Ok(Unit),
          irqfds |-> {r \in irqfds : ~(r.fd = irqfd.fd /\ r.gsi = irqfd.gsi)}]
    ELSE IF \E r \in irqfds : r.fd = irqfd.fd THEN [res |-> Err("EBUSY"), irqfds |-> irqfds]
    ELSE IF fails THEN [res |-> Err("ENOMEM"), irqfds |-> irqfds]
    ELSE [res |-> Ok(Unit),
          irqfds |-> irqfds \cup
              {[fd |-> irqfd.fd, gsi |-> irqfd.gsi,
                resamplefd |-> IF "KVM_IRQFD_FLAG_RESAMPLE" \in irqfd.flags
                               THEN Some(irqfd.resamplefd) ELSE None]}]

\* The kernel, KVM_SET_GSI_ROUTING: the first nr entries become the table.
KvmSetGsiRouting(routing, irq_routing, fails) ==
    IF fails THEN [res |-> Err("EINVAL"), routing |-> routing]
    ELSE [res |-> Ok(Unit), routing |-> SubSeq(irq_routing.entries, 1, irq_routing.nr)]

create_irq_chip(chip, fails) ==
    LET k == KvmCreateIrqchip(chip, fails)
    IN  IrqOutcome(k.res, k.chip, <<IoctlRequest("KVM_CREATE_IRQCHIP", None, k.res)>>)

set_irq_line(chip, irq, active) ==
    LET irq_level == [irq |-> irq, level |-> IF active THEN 1 ELSE 0]
        res == KvmIrqLine(chip, irq_level)
    IN  IrqOutcome(res, chip, <<IoctlRequest("KVM_IRQ_LINE", irq_level, res)>>)

\* Mutation of RegisterRequest: the request is built as unregister_irqfd
\* builds it.
RegisterRequest_Deassign(gsi, evt, resample_evt) ==
    [fd |-> evt, gsi |-> gsi, flags |-> {"KVM_IRQFD_FLAG_DEASSIGN"}, resamplefd |-> 0]

\* Mutation of RegisterRequest: the resample flag is set but the resample
\* descriptor is left at its default.
RegisterRequest_NoResampleFd(gsi, evt, resample_evt) ==
    [fd |-> evt, gsi |-> gsi,
     flags |-> IF resample_evt # None THEN {"KVM_IRQFD_FLAG_RESAMPLE"} ELSE {},
     resamplefd |-> 0]

\* register_irqfd: the kvm_irqfd it passes.
RegisterRequest(gsi, evt, resample_evt) ==
    [fd |-> evt, gsi |-> gsi,
     flags |-> IF resample_evt # None THEN {"KVM_IRQFD_FLAG_RESAMPLE"} ELSE {},
     resamplefd |-> IF resample_evt # None THEN resample_evt[1] ELSE 0]

\* Mutation of register_irqfd: a refused request is issued once more.
register_irqfd_Retry(irqfds, gsi, evt, resample_evt, fails) ==
    LET irqfd == RegisterRequest(gsi, evt, resample_evt)
        k == KvmIrqfd(irqfds, irqfd, fails)
        again == KvmIrqfd(k.irqfds, irqfd, FALSE)
    IN  IF k.res.ok
        THEN IrqOutcome(k.res, k.irqfds, <<IoctlRequest("KVM_IRQFD", irqfd, k.res)>>)
        ELSE IrqOutcome(again.res, again.irqfds,
                        <<IoctlRequest("KVM_IRQFD", irqfd, k.res),
                          IoctlRequest("KVM_IRQFD", irqfd, again.res)>>)

register_irqfd(irqfds, gsi, evt, resample_evt, fails) ==
    LET irqfd == RegisterRequest(gsi, evt, resample_evt)
        k == KvmIrqfd(irqfds, irqfd, fails)
    IN  IrqOutcome(k.res, k.irqfds, <<IoctlRequest("KVM_IRQFD", irqfd, k.res)>>)

\* Mutation of UnregisterRequest: the gsi is left at its default, 0.
UnregisterRequest_NoGsi(gsi, evt) ==
    [fd |-> evt, gsi |-> 0, flags |-> {"KVM_IRQFD_FLAG_DEASSIGN"}, resamplefd |-> 0]

\* unregister_irqfd: the kvm_irqfd it passes.
UnregisterRequest(gsi, evt) ==
    [fd |-> evt, gsi |-> gsi, flags |-> {"KVM_IRQFD_FLAG_DEASSIGN"}, resamplefd |-> 0]

unregister_irqfd(irqfds, gsi, evt) ==
    LET irqfd == UnregisterRequest(gsi, evt)
        k == KvmIrqfd(irqfds, irqfd, FALSE)
    IN  IrqOutcome(k.res, k.irqfds, <<IoctlRequest("KVM_IRQFD", irqfd, k.res)>>)

\* chip_to_kvm_chip (per architecture): the kernel's number of a controller.
chip_to_kvm_chip(chip) ==
    CASE chip = "PicPrimary" -> 0 [] chip = "PicSecondary" -> 1 [] OTHER -> 2

\* Mutation of RoutingEntry: every entry is tagged as a controller pin.
RoutingEntry_AlwaysIrqchip(item) ==
    [gsi |-> item.gsi, type_ |-> "KVM_IRQ_ROUTING_IRQCHIP",
     u |-> [irqchip |-> 0, pin |-> 0]]

\* impl From<&IrqRoute> for kvm_irq_routing_entry
RoutingEntry(item) ==
    IF item.source.kind = "Irqchip"
    THEN [gsi |-> item.gsi, type_ |-> "KVM_IRQ_ROUTING_IRQCHIP",
          u |-> [irqchip |-> chip_to_kvm_chip(item.source.chip), pin |-> item.source.pin]]
    ELSE [gsi |-> item.gsi, type_ |-> "KVM_IRQ_ROUTING_MSI",
          u |-> [address_lo |-> item.source.address % Word,
                 address_hi |-> item.source.address \div Word,
                 data |-> item.source.data, pad |-> 0]]

\* Mutation of set_gsi_routing: the count field is one short of the number
\* of routes.
set_gsi_routing_CountShort(routing, routes, fails) ==
    LET irq_routing == [nr |-> IF Len(routes) > 0 THEN Len(routes) - 1 ELSE 0,
                        entries |-> [i \in 1 .. Len(routes) |-> RoutingEntry(routes[i])]]
        k == KvmSetGsiRouting(routing, irq_routing, fails)
    IN  IrqOutcome(k.res, k.routing, <<IoctlRequest("KVM_SET_GSI_ROUTING", irq_routing, k.res)>>)

set_gsi_routing(routing, routes, fails) ==
    LET irq_routing == [nr |-> Len(routes),
                        entries |-> [i \in 1 .. Len(routes) |-> RoutingEntry(routes[i])]]
        k == KvmSetGsiRouting(routing, irq_routing, fails)
    IN  IrqOutcome(k.res, k.routing, <<IoctlRequest("KVM_SET_GSI_ROUTING", irq_routing, k.res)>>)

\* The record of an interrupt call.
IrqCall(op, args, out) == [op |-> op, args |-> args, res |-> out.res, reqs |-> out.reqs]

\* What the interrupt calls never touch.
irq_frame == <<mem_vars, vm, thread_vars, clone_vars, process_vars>>

CreateIrqChip(fails) ==
    LET out == create_irq_chip(kernel_irqchip, fails)
    IN  /\ kernel_irqchip' = out.state
        /\ last' = IrqCall("create_irq_chip", None, out)
        /\ UNCHANGED <<kernel_irqfds, kernel_routing, irq_frame>>

SetIrqLine(irq, active) ==
    LET out == set_irq_line(kernel_irqchip, irq, active)
    IN  /\ last' = IrqCall("set_irq_line", [irq |-> irq, active |-> active], out)
        /\ UNCHANGED <<irq_vars, irq_frame>>

RegisterIrqfd(gsi, evt, resample_evt, fails) ==
    LET out == register_irqfd(kernel_irqfds, gsi, evt, resample_evt, fails)
    IN  /\ kernel_irqfds' = out.state
        /\ last' = IrqCall("register_irqfd",
                           [gsi |-> gsi, evt |-> evt, resample_evt |-> resample_evt], out)
        /\ UNCHANGED <<kernel_irqchip, kernel_routing, irq_frame>>

UnregisterIrqfd(gsi, evt) ==
    LET out == unregister_irqfd(kernel_irqfds, gsi, evt)
    IN  /\ kernel_irqfds' = out.state
        /\ last' = IrqCall("unregister_irqfd", [gsi |-> gsi, evt |-> evt], out)
        /\ UNCHANGED <<kernel_irqchip, kernel_routing, irq_frame>>

SetGsiRouting(routes, fails) ==
    LET out == set_gsi_routing(kernel_routing, routes, fails)
    IN  /\ kernel_routing' = out.state
        /\ last' = IrqCall("set_gsi_routing", [routes |-> routes], out)
        /\ UNCHANGED <<kernel_irqchip, kernel_irqfds, irq_frame>>

NextIrq ==
    \/ \E fails \in BOOLEAN : CreateIrqChip(fails)
    \/ \E irq \in IrqLines, active \in BOOLEAN : SetIrqLine(irq, active)
    \/ \E gsi \in Gsis, evt \in Events, fails \in BOOLEAN :
           \/ RegisterIrqfd(gsi, evt, None, fails)
           \/ \E r_evt \in Events \ {evt} : RegisterIrqfd(gsi, evt, Some(r_evt), fails)
    \/ \E gsi \in Gsis, evt \in Events : UnregisterIrqfd(gsi, evt)
    \/ \E routes \in RoutesUpTo(MaxRoutes), fails \in BOOLEAN : SetGsiRouting(routes, fails)

SpecIrq == Init /\ [][NextIrq]_vars

\* The memory calls and the interrupt calls on one VM context, each with
\* few arguments: every call with an accepted and with a refused request.
NextCalls ==
    \/ \E guest_addr \in ThreadAddrs, fails \in BOOLEAN :
           AddMemoryRegion(guest_addr, ThreadSize, FALSE, FALSE, fails)
    \/ \E slot \in ThreadSlots, fails \in BOOLEAN : RemoveMemoryRegion(slot, fails)
    \/ \E fails \in BOOLEAN : CreateIrqChip(fails)
    \/ \E irq \in IrqLines : SetIrqLine(irq, TRUE)
    \/ \E evt \in Events, fails \in BOOLEAN : RegisterIrqfd(4, evt, None, fails)
    \/ \E evt \in Events : UnregisterIrqfd(4, evt)
    \/ \E routes \in RoutesUpTo(1), fails \in BOOLEAN : SetGsiRouting(routes, fails)

SpecCalls == Init /\ [][NextCalls]_vars

----------------------------------------------------------------------------
(* Capabilities: Kvm::check_capability and KvmVm::check_capability *)

\* The largest answer the kernel gives to KVM_CHECK_EXTENSION.
MaxExt == 2

\* The kernel's answers: 0 for an extension it does not have, a positive
\* number for one it has.
ExtAnswers == 0 .. MaxExt

\* The portable capabilities of the hypervisor handle.
HypervisorCaps ==
    {"ArmPmuV3", "ImmediateExit", "S390UserSigp", "TscDeadlineTimer", "UserMemory"}

\* The capabilities of a VM.
VmCaps == {"DirtyLog", "PvClock", "PvClockSuspend"}

\* The extension the VM asks for by its raw number.
KVM_CAP_KVMCLOCK_CTRL == "KvmclockCtrl"

\* The extensions the two functions can ask the kernel about.
KvmCaps == HypervisorCaps \cup {KVM_CAP_KVMCLOCK_CTRL}

\* What the architecture module answers for a VM capability: nothing, or
\* the final answer.
ArchAnswers == {None, Some(TRUE), Some(FALSE)}

\* KvmCap::try_from(&HypervisorCap): every portable capability has a KVM
\* capability of the same name.
KvmCapTryFrom(cap) ==
    CASE cap = "ArmPmuV3" -> Ok("ArmPmuV3")
      [] cap = "ImmediateExit" -> Ok("ImmediateExit")
      [] cap = "S390UserSigp" -> Ok("S390UserSigp")
      [] cap = "TscDeadlineTimer" -> Ok("TscDeadlineTimer")
      [] cap = "UserMemory" -> Ok("UserMemory")

\* The kernel, KVM_CHECK_EXTENSION: a query, it changes nothing.
KvmCheckExtension(extensions, cap) == extensions[cap]

\* What a capability call leaves behind: its answer and the requests it issued.
CapOutcome(res, reqs) == [res |-> res, reqs |-> reqs]

\* Kvm::check_capability with any non-zero answer taken for support.
hypervisor_check_capability_NonZero(extensions, cap) ==
    LET kvm_cap == KvmCapTryFrom(cap)
    IN  IF kvm_cap.ok
        THEN LET k == KvmCheckExtension(extensions, kvm_cap.val)
             IN  CapOutcome(k # 0, <<IoctlRequest("KVM_CHECK_EXTENSION", kvm_cap.val, k)>>)
        ELSE CapOutcome(FALSE, <<>>)

\* Kvm::check_capability
hypervisor_check_capability(extensions, cap) ==
    LET kvm_cap == KvmCapTryFrom(cap)
    IN  IF kvm_cap.ok
        THEN LET k == KvmCheckExtension(extensions, kvm_cap.val)
             IN  CapOutcome(k = 1, <<IoctlRequest("KVM_CHECK_EXTENSION", kvm_cap.val, k)>>)
        ELSE CapOutcome(FALSE, <<>>)

\* KvmVm::check_raw_capability
check_raw_capability(extensions, cap) ==
    LET k == KvmCheckExtension(extensions, cap)
    IN  CapOutcome(k = 1, <<IoctlRequest("KVM_CHECK_EXTENSION", cap, k)>>)

\* The generic answers of KvmVm::check_capability.
GenericCapability(extensions, c) ==
    CASE c = "DirtyLog" -> CapOutcome(TRUE, <<>>)
      [] c = "PvClock" -> CapOutcome(FALSE, <<>>)
      [] c = "PvClockSuspend" -> check_raw_capability(extensions, KVM_CAP_KVMCLOCK_CTRL)

\* KvmVm::check_capability with the generic answers consulted before the
\* architecture.
vm_check_capability_GenericFirst(extensions, c, arch) ==
    IF c \in {"DirtyLog", "PvClock"} \/ arch = None
    THEN GenericCapability(extensions, c)
    ELSE CapOutcome(arch[1], <<>>)

\* KvmVm::check_capability; arch is the answer of check_capability_arch(c).
vm_check_capability(extensions, c, arch) ==
    IF arch # None
    THEN CapOutcome(arch[1], <<>>)
    ELSE GenericCapability(extensions, c)

\* The record of a capability call.
CapCall(op, args, out) == [op |-> op, args |-> args, res |-> out.res, reqs |-> out.reqs]

\* What the capability calls never touch: everything but the record.
cap_frame == <<mem_vars, thread_vars, other_vars>>

\* A VM on a kernel with any set of extensions.
InitCap ==
    /\ InitVm /\ NoThreads /\ NoClones /\ NoIrqs
    /\ kernel_extensions \in [KvmCaps -> ExtAnswers]
    /\ NoLog /\ NoVcpus /\ NoFdt /\ NoSyslogger

CheckCapability(cap) ==
    /\ last' = CapCall("check_capability", cap,
                       hypervisor_check_capability(kernel_extensions, cap))
    /\ UNCHANGED cap_frame

VmCheckCapability(c, arch) ==
    /\ last' = CapCall("vm_check_capability", [c |-> c, arch |-> arch],
                       vm_check_capability(kernel_extensions, c, arch))
    /\ UNCHANGED cap_frame

NextCap ==
    \/ \E cap \in HypervisorCaps : CheckCapability(cap)
    \/ \E c \in VmCaps, arch \in ArchAnswers : VmCheckCapability(c, arch)

SpecCap == InitCap /\ [][NextCap]_vars

----------------------------------------------------------------------------
(* syslog: the process-wide logger of win_sys_util *)

\* std::usize::MAX, scaled down to four bits.  A string is at most
\* isize::MAX = 7 bytes long.
usize_MAX == 15

\* The most per-path filters in the list.
MaxFilters == 2

\* Priority as u8: Emergency = 0 .. Debug = 7.
Priorities == 0 .. 7

\* PriorityFilter values: Silent, ShowAll, Priority(Error).
LevelInputs ==
    {[kind |-> "Silent"], [kind |-> "ShowAll"], [kind |-> "Priority", pri |-> 3]}

\* Path prefixes of filters and paths of source files, as their components;
\* every component is one byte long.
PrefixInputs == {<<"f">>, <<"f", "d">>, <<"o">>}
FileInputs == {<<"f", "d", "t">>, <<"f", "t">>, <<"t">>}

\* str::len of a path written with "/" between its components.
StrLen(path) == IF path = <<>> THEN 0 ELSE 2 * Len(path) - 1

\* Path::starts_with: base is a prefix of path, component by component.
starts_with(path, base) ==
    Len(base) <= Len(path) /\ SubSeq(path, 1, Len(base)) = base

\* slice::binary_search_by_key over keys[lo+1 .. hi]: Ok(index) of an element
\* whose key is b, or Err(index) of where the search ended.
RECURSIVE binary_search_by_key(_, _, _, _)
binary_search_by_key(keys, b, lo, hi) ==
    IF lo >= hi THEN Err(lo)
    ELSE LET mid == lo + ((hi - lo) \div 2)
         IN  IF keys[mid + 1] = b THEN Ok(mid)
             ELSE IF keys[mid + 1] < b
                  THEN binary_search_by_key(keys, b, mid + 1, hi)
                  ELSE binary_search_by_key(keys, b, lo, mid)

\* State::new() when the platform's syslog connection can be made.
StateNew ==
    [stderr |-> TRUE, file |-> None, proc_name |-> Some("app"), syslog |-> TRUE,
     log_level |-> [kind |-> "Priority", pri |-> 6], path_log_levels |-> <<>>]

\* Mutation of lock: a null STATE is taken for a fresh state.
lock_Lazy(ptr) == Ok(IF ptr = None THEN StateNew ELSE ptr[1])

\* lock(): the state behind STATE, or NeverInitialized while STATE is null.
lock(ptr) == IF ptr = None THEN Err("NeverInitialized") ELSE Ok(ptr[1])

\* What the logger calls never touch.
log_frame ==
    <<mem_vars, vm, mutexes, clone_vars, irq_vars, kernel_extensions, vcpus, fdt, syslogger>>

\* The record of a logger call.
LogCall(op, args, res) == [op |-> op, args |-> args, res |-> res]

\* syslog_lock!() followed by an update of the state: the function returns
\* silently, the state untouched, when lock() fails.
syslog_lock(ptr, updated) == IF lock(ptr).ok THEN Some(updated) ELSE ptr

set_log_level(log_level) ==
    /\ state_ptr' = syslog_lock(state_ptr,
                                [lock(state_ptr).val EXCEPT !.log_level = log_level])
    /\ last' = LogCall("set_log_level", log_level, Unit)
    /\ UNCHANGED <<STATE_ONCE, threads, log_frame>>

\* add_path_log_level: the index found by the binary search, or the index at
\* which it ended.
InsertIndex(path_log_levels, path_prefix) ==
    LET keys == [i \in 1 .. Len(path_log_levels) |->
                     usize_MAX - StrLen(path_log_levels[i].path_prefix)]
        found == binary_search_by_key(keys, StrLen(path_prefix), 0, Len(keys))
    IN  IF found.ok THEN found.val ELSE found.err

add_path_log_level(path_prefix, log_level) ==
    LET state == lock(state_ptr).val
        index == InsertIndex(state.path_log_levels, path_prefix)
    IN  /\ lock(state_ptr).ok => Len(state.path_log_levels) < MaxFilters
        /\ state_ptr' = syslog_lock(state_ptr,
                [state EXCEPT !.path_log_levels =
                    SubSeq(@, 1, index)
                    \o <<[path_prefix |-> path_prefix, level |-> log_level]>>
                    \o SubSeq(@, index + 1, Len(@))])
        /\ last' = LogCall("add_path_log_level",
                           [path_prefix |-> path_prefix, log_level |-> log_level], Unit)
        /\ UNCHANGED <<STATE_ONCE, threads, log_frame>>

\* Mutation of FilterLevel: the per-path filters are not consulted.
FilterLevel_GlobalOnly(state, file_path) == state.log_level

\* log_enabled: the level of the first filter in list order whose prefix the
\* file path starts with, else the global level.
FilterLevel(state, file_path) ==
    LET hits == {i \in 1 .. Len(state.path_log_levels) :
                     starts_with(file_path, state.path_log_levels[i].path_prefix)}
    IN  IF hits = {} THEN state.log_level
        ELSE state.path_log_levels[CHOOSE i \in hits : \A j \in hits : i <= j].level

\* Mutation of log_enabled: a message passes a Priority level only when it
\* is strictly more severe.
log_enabled_Strict(pri, file_path) ==
    LET log_level == FilterLevel(lock(state_ptr).val, file_path)
        res == IF ~lock(state_ptr).ok THEN None
               ELSE CASE log_level.kind = "ShowAll" -> Some(TRUE)
                      [] log_level.kind = "Silent" -> Some(FALSE)
                      [] log_level.kind = "Priority" -> Some(pri < log_level.pri)
    IN  /\ last' = LogCall("log_enabled", [pri |-> pri, file_path |-> file_path], res)
        /\ UNCHANGED <<log_vars, threads, log_frame>>

log_enabled(pri, file_path) ==
    LET log_level == FilterLevel(lock(state_ptr).val, file_path)
        res == IF ~lock(state_ptr).ok THEN None
               ELSE CASE log_level.kind = "ShowAll" -> Some(TRUE)
                      [] log_level.kind = "Silent" -> Some(FALSE)
                      [] log_level.kind = "Priority" -> Some(pri <= log_level.pri)
    IN  /\ last' = LogCall("log_enabled", [pri |-> pri, file_path |-> file_path], res)
        /\ UNCHANGED <<log_vars, threads, log_frame>>

\* No VM context and no guest memory: the logger is used on its own.
NoVm ==
    /\ guest_mem = <<>> /\ mem_regions = <<>> /\ mem_slot_gaps = <<>>
    /\ kernel_slots = <<>> /\ handed_out = {} /\ vm = None
    /\ NoClones /\ NoIrqs /\ NoCaps /\ NoVcpus /\ NoFdt

\* The logger after a successful syslog::init().
InitFilters ==
    /\ NoVm /\ NoSyslogger /\ NoThreads
    /\ STATE_ONCE = "done"
    /\ state_ptr = Some(StateNew)
    /\ last = LogCall("init", None, Ok(Unit))

NextFilters ==
    \/ \E log_level \in LevelInputs : set_log_level(log_level)
    \/ \E path_prefix \in PrefixInputs, log_level \in LevelInputs :
           add_path_log_level(path_prefix, log_level)
    \/ \E pri \in Priorities, file_path \in FileInputs : log_enabled(pri, file_path)

SpecFilters == InitFilters /\ [][NextFilters]_vars

\* The threads that call syslog::init(), none of them inside a call.
InitLogger ==
    /\ NoVm /\ NoSyslogger /\ NoLog
    /\ mutexes = [m \in {"mem_regions", "mem_slot_gaps"} |-> None]
    /\ threads = [t \in Threads |->
                     [pc |-> "idle", err |-> "Poisoned", ran |-> FALSE, ok |-> FALSE]]
    /\ last = LogCall("none", None, Unit)

\* Mutation of init_call_once: the state is constructed by every call.
init_call_once_EveryCall(t, fails) ==
    /\ threads[t].pc = "idle"
    /\ STATE_ONCE' = "done"
    /\ state_ptr' = IF fails THEN state_ptr ELSE Some(StateNew)
    /\ threads' = [threads EXCEPT ![t] =
                      [@ EXCEPT !.pc = "init", !.ran = TRUE,
                                !.err = IF fails THEN "Socket" ELSE "Poisoned"]]
    /\ last' = LogCall("call_once", t, Some(TRUE))
    /\ UNCHANGED log_frame

\* init, up to the return of STATE_ONCE.call_once: the closure runs in the
\* first call only, and there it stores the new state or keeps the error of
\* State::new(); a caller that finds the Once completed keeps Poisoned.
init_call_once(t, fails) ==
    LET runs == STATE_ONCE = "new"
    IN  /\ threads[t].pc = "idle"
        /\ STATE_ONCE' = "done"
        /\ state_ptr' = IF runs /\ ~fails THEN Some(StateNew) ELSE state_ptr
        /\ threads' = [threads EXCEPT ![t] =
                          [@ EXCEPT !.pc = "init", !.ran = runs,
                                    !.err = IF runs /\ fails THEN "Socket" ELSE "Poisoned"]]
        /\ last' = LogCall("call_once", t, Some(runs))
        /\ UNCHANGED log_frame

\* init, from the test of STATE.is_null() to its return.
init_return(t) ==
    LET res == IF state_ptr = None THEN Err(threads[t].err) ELSE Ok(Unit)
    IN  /\ threads[t].pc = "init"
        /\ threads' = [threads EXCEPT ![t] =
                          [@ EXCEPT !.pc = "idle", !.ok = @ \/ res.ok]]
        /\ last' = LogCall("init", [thread |-> t, ran |-> threads[t].ran], res)
        /\ UNCHANGED <<log_vars, log_frame>>

set_proc_name(proc_name) ==
    /\ state_ptr' = syslog_lock(state_ptr,
                                [lock(state_ptr).val EXCEPT !.proc_name = Some(proc_name)])
    /\ last' = LogCall("set_proc_name", proc_name, Unit)
    /\ UNCHANGED <<STATE_ONCE, threads, log_frame>>

\* echo_syslog; PlatformSyslog::enable opens or closes the connection, and
\* opening it can fail.
echo_syslog(enable, fails) ==
    LET res == IF state_ptr = None THEN Err("NeverInitialized")
               ELSE IF enable /\ fails THEN Err("Connect") ELSE Ok(Unit)
    IN  /\ state_ptr' = IF res.ok THEN Some([state_ptr[1] EXCEPT !.syslog = enable])
                        ELSE state_ptr
        /\ last' = LogCall("echo_syslog", enable, res)
        /\ UNCHANGED <<STATE_ONCE, threads, log_frame>>

echo_file(file) ==
    /\ state_ptr' = syslog_lock(state_ptr, [lock(state_ptr).val EXCEPT !.file = file])
    /\ last' = LogCall("echo_file", file, Unit)
    /\ UNCHANGED <<STATE_ONCE, threads, log_frame>>

echo_stderr(enable) ==
    /\ state_ptr' = syslog_lock(state_ptr, [lock(state_ptr).val EXCEPT !.stderr = enable])
    /\ last' = LogCall("echo_stderr", enable, Unit)
    /\ UNCHANGED <<STATE_ONCE, threads, log_frame>>

\* push_descriptors: the descriptors appended to fds, those of the syslog
\* connection and of the echo file.
push_descriptors ==
    LET state == lock(state_ptr).val
        pushed == IF ~lock(state_ptr).ok THEN {}
                  ELSE (IF state.syslog THEN {"syslog"} ELSE {}) \cup Range(state.file)
    IN  /\ last' = LogCall("push_descriptors", None, pushed)
        /\ UNCHANGED <<log_vars, threads, log_frame>>

\* log: the sinks the message is written to.
log(pri) ==
    LET state == lock(state_ptr).val
        written == IF ~lock(state_ptr).ok THEN {}
                   ELSE (IF state.syslog THEN {"syslog"} ELSE {})
                        \cup Range(state.file)
                        \cup (IF state.stderr THEN {"stderr"} ELSE {})
    IN  /\ last' = LogCall("log", pri, written)
        /\ UNCHANGED <<log_vars, threads, log_frame>>

NextLogger ==
    \/ \E t \in Threads, fails \in BOOLEAN : init_call_once(t, fails)
    \/ \E t \in Threads : init_return(t)
    \/ set_log_level([kind |-> "Silent"])
    \/ add_path_log_level(<<"f">>, [kind |-> "ShowAll"])
    \/ log_enabled(3, <<"f", "t">>)
    \/ set_proc_name("name")
    \/ echo_syslog(FALSE, FALSE)
    \/ \E fails \in BOOLEAN : echo_syslog(TRUE, fails)
    \/ echo_file(Some("file"))
    \/ echo_stderr(FALSE)
    \/ push_descriptors
    \/ log(3)

SpecLogger == InitLogger /\ [][NextLogger]_vars

----------------------------------------------------------------------------
(* Virtual CPU handles *)

\* The number of virtual CPU handles a behaviour constructs.
MaxVcpus == 2

\* Mutation of IsSend: the marker field is left out, every handle is Send.
IsSend_All(kind) == TRUE

\* Whether a value of the type may be moved to another thread.  KvmVcpu is
\* a struct without fields; RunnableKvmVcpu holds PhantomData<*mut u8>, and
\* a raw pointer is neither Send nor Sync.
IsSend(kind) == kind = "KvmVcpu"

\* Whether a shared reference to the type may be handed to another thread
\* (&T is Send exactly when T is Sync).
IsSync(kind) == kind = "KvmVcpu"

\* What the calls on virtual CPU handles never touch.
vcpu_frame ==
    <<mem_vars, thread_vars, vm, clone_vars, irq_vars, kernel_extensions, log_vars, fdt,
      syslogger>>

VcpuCall(op, thread, vcpu, res) ==
    [op |-> op, args |-> [thread |-> thread, vcpu |-> vcpu], res |-> res]

\* The threads that can reach handle i itself: the one that owns the value
\* and those that were lent a reference to it.
Reach(i) == {vcpus[i].owner} \cup vcpus[i].lent

\* The threads that can reach the KvmVcpu of handle i: through the handle,
\* or through a reference obtained from a Runnable handle by deref.
ReachInner(i) == Reach(i) \cup vcpus[i].inner_lent

\* KvmVcpu {}: thread t constructs a handle.
VcpuNew(t) ==
    /\ Len(vcpus) < MaxVcpus
    /\ vcpus' = Append(vcpus, [kind |-> "KvmVcpu", owner |-> t, bound |-> None,
                               lent |-> {}, inner_lent |-> {}, ran |-> {}])
    /\ last' = VcpuCall("new", t, Len(vcpus) + 1, Ok(Unit))
    /\ UNCHANGED vcpu_frame

\* The owner moves handle i to thread `to`: what the compiler accepts for a
\* Send type that is not borrowed.
VcpuSend(i, to) ==
    /\ IsSend(vcpus[i].kind)
    /\ vcpus[i].lent = {} /\ vcpus[i].inner_lent = {}
    /\ to # vcpus[i].owner
    /\ vcpus' = [vcpus EXCEPT ![i].owner = to]
    /\ last' = VcpuCall("send", to, i, Ok(Unit))
    /\ UNCHANGED vcpu_frame

\* The owner lends a reference to handle i to thread `to` for a scope:
\* accepted for a Sync type.
VcpuLend(i, to) ==
    /\ IsSync(vcpus[i].kind)
    /\ to \notin Reach(i)
    /\ vcpus' = [vcpus EXCEPT ![i].lent = @ \cup {to}]
    /\ last' = VcpuCall("lend", to, i, Ok(Unit))
    /\ UNCHANGED vcpu_frame

\* Deref for RunnableKvmVcpu: the owner takes &self.vcpu, a reference to a
\* KvmVcpu, and lends it to thread `to` for a scope.
VcpuDeref(i, to) ==
    /\ vcpus[i].kind = "Runnable"
    /\ IsSync("KvmVcpu")
    /\ to \notin ReachInner(i)
    /\ vcpus' = [vcpus EXCEPT ![i].inner_lent = @ \cup {to}]
    /\ last' = VcpuCall("deref", to, i, Ok(Unit))
    /\ UNCHANGED vcpu_frame

\* The scope of the references lent out of handle i ends.
VcpuScopeEnd(i) ==
    /\ vcpus[i].lent \cup vcpus[i].inner_lent # {}
    /\ vcpus' = [vcpus EXCEPT ![i].lent = {}, ![i].inner_lent = {}]
    /\ last' = VcpuCall("scope_end", vcpus[i].owner, i, Ok(Unit))
    /\ UNCHANGED vcpu_frame

\* to_runnable(self): consumes the KvmVcpu on the thread that owns it, so
\* no reference to it is outstanding, and wraps it.
to_runnable(i) ==
    /\ vcpus[i].kind = "KvmVcpu"
    /\ vcpus[i].lent = {}
    /\ vcpus' = [vcpus EXCEPT ![i].kind = "Runnable",
                              ![i].bound = Some(vcpus[i].owner)]
    /\ last' = VcpuCall("to_runnable", vcpus[i].owner, i, Ok(Unit))
    /\ UNCHANGED vcpu_frame

\* Mutation of run: the call gives the handle back as a KvmVcpu.
run_BackToConstructed(t, i) ==
    /\ vcpus[i].kind = "Runnable"
    /\ t \in Reach(i)
    /\ vcpus' = [vcpus EXCEPT ![i].kind = "KvmVcpu", ![i].bound = None,
                              ![i].ran = @ \cup {t}]
    /\ last' = VcpuCall("run", t, i, Ok(<<"VcpuExit", "Unknown">>))
    /\ UNCHANGED vcpu_frame

\* run(&self) by a thread that can reach the Runnable handle.
run(t, i) ==
    /\ vcpus[i].kind = "Runnable"
    /\ t \in Reach(i)
    /\ vcpus' = [vcpus EXCEPT ![i].ran = @ \cup {t}]
    /\ last' = VcpuCall("run", t, i, Ok(<<"VcpuExit", "Unknown">>))
    /\ UNCHANGED vcpu_frame

\* request_interrupt_window(&self) by a thread that can reach the KvmVcpu.
request_interrupt_window(t, i) ==
    /\ t \in ReachInner(i)
    /\ last' = VcpuCall("request_interrupt_window", t, i, Ok(Unit))
    /\ UNCHANGED <<vcpus, vcpu_frame>>

InitVcpu ==
    /\ NoVm /\ NoSyslogger /\ NoLog /\ NoThreads
    /\ last = VcpuCall("none", "t1", 0, Ok(Unit))

NextVcpu ==
    \/ \E t \in Threads : VcpuNew(t)
    \/ \E i \in DOMAIN vcpus, to \in Threads : VcpuSend(i, to)
    \/ \E i \in DOMAIN vcpus, to \in Threads : VcpuLend(i, to)
    \/ \E i \in DOMAIN vcpus, to \in Threads : VcpuDeref(i, to)
    \/ \E i \in DOMAIN vcpus : VcpuScopeEnd(i)
    \/ \E i \in DOMAIN vcpus : to_runnable(i)
    \/ \E t \in Threads, i \in DOMAIN vcpus : run(t, i)
    \/ \E t \in Threads, i \in DOMAIN vcpus : request_interrupt_window(t, i)

SpecVcpu == InitVcpu /\ [][NextVcpu]_vars

----------------------------------------------------------------------------
(* The device tree: create_fdt *)

\* The largest fdt_max_size handed to create_fdt, in bytes.
MaxFdtSize == 2

\* The start of guest RAM; stands for 0x8000_0000.
AARCH64_PHYS_MEM_START == 2

FdtSizes == 0 .. MaxFdtSize
FdtOffsets == 0 .. MaxAddr

\* Guest memory of an aarch64 guest: one region from the start of RAM.
FdtLayouts ==
    {<<[guest_base |-> AARCH64_PHYS_MEM_START, size |-> s]>> :
         s \in 1 .. (MaxAddr - AARCH64_PHYS_MEM_START)}

\* The calls that build the tree, in the order of create_fdt; each of them
\* returns a Result and is followed by `?`.
BuildSteps ==
    <<"start_fdt", "begin_node", "create_chosen_node", "create_memory_node",
      "create_cpu_nodes", "create_gic_node", "create_timer_node",
      "create_serial_node", "create_psci_node", "create_pci_nodes",
      "create_rtc_node", "end_node">>

\* All fallible steps of create_fdt.
FdtSteps == BuildSteps \o <<"finish_fdt", "write_at_addr">>

\* Mutation of fdt_address: the offset is taken for the address.
fdt_address_NoBase(fdt_load_offset) == fdt_load_offset

\* GuestAddress(AARCH64_PHYS_MEM_START + fdt_load_offset), a u64 sum, for
\* the builds in which it wraps.
fdt_address(fdt_load_offset) ==
    (AARCH64_PHYS_MEM_START + fdt_load_offset) % (MaxAddr + 1)

\* GuestMemory::write_at_addr(buf, addr) for a buffer of len bytes: an error
\* for an address outside every region, else the number of bytes that fit
\* between the address and the end of its region.
write_at_addr(gm, len, addr) ==
    LET hits == {i \in DOMAIN gm : gm[i].guest_base <= addr /\ addr < region_end(gm[i])}
    IN  IF hits = {} THEN Err("InvalidGuestAddress")
        ELSE LET room == region_end(gm[CHOOSE i \in hits : TRUE]) - addr
             IN  Ok(IF len < room THEN len ELSE room)

\* What create_fdt never touches.
fdt_frame ==
    <<mem_vars, thread_vars, vm, clone_vars, irq_vars, kernel_extensions, log_vars, vcpus,
      syslogger>>

FdtCall(args, res) == [op |-> "create_fdt", args |-> args, res |-> res]

\* create_fdt is entered: the buffer of fdt_max_size bytes is allocated.
create_fdt_enter(fdt_max_size, fdt_load_offset) ==
    /\ IF fdt = None THEN TRUE ELSE ~fdt.running
    /\ fdt' = [running |-> TRUE, step |-> 1,
               args |-> [fdt_max_size |-> fdt_max_size,
                         fdt_load_offset |-> fdt_load_offset],
               built |-> 0, finished |-> FALSE, write_res |-> None, written |-> {}]
    /\ UNCHANGED <<last, fdt_frame>>

\* One of the calls that build the tree: on an error create_fdt returns it.
create_fdt_build(fails) ==
    /\ fdt # None /\ fdt.running
    /\ fdt.step <= Len(BuildSteps)
    /\ IF fails
       THEN /\ fdt' = [fdt EXCEPT !.running = FALSE]
            /\ last' = FdtCall(fdt.args, Err(FdtSteps[fdt.step]))
       ELSE /\ fdt' = [fdt EXCEPT !.step = @ + 1, !.built = @ + 1]
            /\ UNCHANGED last
    /\ UNCHANGED fdt_frame

\* finish_fdt(&mut fdt, &mut fdt_final, fdt_max_size)?
create_fdt_finish(fails) ==
    /\ fdt # None /\ fdt.running
    /\ FdtSteps[fdt.step] = "finish_fdt"
    /\ IF fails
       THEN /\ fdt' = [fdt EXCEPT !.running = FALSE]
            /\ last' = FdtCall(fdt.args, Err("finish_fdt"))
       ELSE /\ fdt' = [fdt EXCEPT !.step = @ + 1, !.finished = TRUE]
            /\ UNCHANGED last
    /\ UNCHANGED fdt_frame

\* From the computation of fdt_address to the return.  The sum is a u64
\* addition: when it overflows, a build with overflow checks panics and one
\* without them goes on with the wrapped address.
create_fdt_write(checked) ==
    LET a == fdt.args
        overflow == AARCH64_PHYS_MEM_START + a.fdt_load_offset > MaxAddr
        addr == fdt_address(a.fdt_load_offset)
        res == write_at_addr(guest_mem, a.fdt_max_size, addr)
        n == IF res.ok THEN res.val ELSE 0
    IN  /\ fdt # None /\ fdt.running
        /\ FdtSteps[fdt.step] = "write_at_addr"
        /\ IF overflow /\ checked
           THEN /\ fdt' = [fdt EXCEPT !.running = FALSE]
                /\ last' = FdtCall(a, Err("panic"))
           ELSE /\ fdt' = [fdt EXCEPT !.running = FALSE, !.write_res = Some(res),
                                      !.written = {addr + k : k \in 0 .. n - 1}]
                /\ last' = FdtCall(a, IF ~res.ok \/ res.val < a.fdt_max_size
                                      THEN Err("FdtGuestMemoryWriteError")
                                      ELSE Ok(Unit))
        /\ UNCHANGED fdt_frame

InitFdt ==
    /\ guest_mem \in FdtLayouts
    /\ mem_regions = <<>> /\ mem_slot_gaps = <<>>
    /\ kernel_slots = <<>> /\ handed_out = {} /\ vm = None
    /\ NoThreads /\ NoClones /\ NoIrqs /\ NoProcess
    /\ last = [op |-> "none", args |-> None, res |-> None]

NextFdt ==
    \/ \E fdt_max_size \in FdtSizes, fdt_load_offset \in FdtOffsets :
           create_fdt_enter(fdt_max_size, fdt_load_offset)
    \/ \E fails \in BOOLEAN : create_fdt_build(fails)
    \/ \E fails \in BOOLEAN : create_fdt_finish(fails)
    \/ \E checked \in BOOLEAN : create_fdt_write(checked)

SpecFdt == InitFdt /\ [][NextFdt]_vars

----------------------------------------------------------------------------
(* syslog: Syslogger, the io::Write adapter over log() *)

\* The most bytes one write carries, and the most bytes written in all.
MaxWrite == 2
MaxWritten == 4

\* The bytes written: a letter, the newline, and a byte that is no UTF-8.
\* No input carries a carriage return.
LF == "\n"
Bytes == {"a", LF, "0xFF"}

RECURSIVE SeqsUpTo(_, _)
SeqsUpTo(S, n) ==
    IF n = 0 THEN {<<>>}
    ELSE SeqsUpTo(S, n - 1) \cup
         {Append(s, x) : s \in {q \in SeqsUpTo(S, n - 1) : Len(q) = n - 1}, x \in S}

WriteInputs == SeqsUpTo(Bytes, MaxWrite)

\* String::from_utf8_lossy: every byte that is not valid UTF-8 becomes
\* U+FFFD REPLACEMENT CHARACTER.
from_utf8_lossy(buf) ==
    [i \in 1 .. Len(buf) |-> IF buf[i] = "0xFF" THEN "U+FFFD" ELSE buf[i]]

\* str::rfind: the index of the last occurrence, counted from 0.
rfind(s, c) ==
    IF \E i \in 1 .. Len(s) : s[i] = c
    THEN Some((CHOOSE i \in 1 .. Len(s) :
                   s[i] = c /\ \A j \in (i + 1) .. Len(s) : s[j] # c) - 1)
    ELSE None

\* str::find, counted from 0.
find(s, c) ==
    IF \E i \in 1 .. Len(s) : s[i] = c
    THEN Some((CHOOSE i \in 1 .. Len(s) :
                   s[i] = c /\ \A j \in 1 .. (i - 1) : s[j] # c) - 1)
    ELSE None

\* str::lines on a string without carriage returns: the pieces between the
\* newlines; an empty piece after the last newline is not a line.
RECURSIVE lines(_)
lines(s) ==
    IF s = <<>> THEN <<>>
    ELSE IF find(s, LF) = None THEN <<s>>
    ELSE <<SubSeq(s, 1, find(s, LF)[1])>>
             \o lines(SubSeq(s, find(s, LF)[1] + 2, Len(s)))

\* <Syslogger as io::Write>::write: the text is appended to the buffer; if
\* the buffer holds a newline, the lines of what precedes the last newline
\* are handed to log() and the buffer is drained through that newline.
Syslogger_write(self, buf) ==
    LET pushed == self.buf \o from_utf8_lossy(buf)
        last_newline_idx == rfind(pushed, LF)
    IN  IF last_newline_idx # None
        THEN [self |-> [self EXCEPT !.buf =
                            SubSeq(pushed, last_newline_idx[1] + 2, Len(pushed))],
              logs |-> lines(SubSeq(pushed, 1, last_newline_idx[1])),
              res |-> Ok(Len(buf))]
        ELSE [self |-> [self EXCEPT !.buf = pushed], logs |-> <<>>,
              res |-> Ok(Len(buf))]

\* What the calls on a Syslogger never touch.
syslogger_frame ==
    <<mem_vars, thread_vars, vm, clone_vars, irq_vars, kernel_extensions,
      log_vars, vcpus, fdt>>

WriterCall(op, buf, res, logs) ==
    [op |-> op, args |-> [buf |-> buf], res |-> res, logs |-> logs]

\* One call of write.  `logged` and `written` are history: the lines handed
\* to log() and the text pushed, over all the calls.
SysloggerWrite(buf) ==
    /\ Len(syslogger.written) + Len(buf) <= MaxWritten
    /\ LET out == Syslogger_write([buf |-> syslogger.buf], buf)
       IN  /\ syslogger' = [buf |-> out.self.buf,
                            logged |-> syslogger.logged \o out.logs,
                            written |-> syslogger.written \o from_utf8_lossy(buf)]
           /\ last' = WriterCall("write", buf, out.res, out.logs)
    /\ UNCHANGED syslogger_frame

\* <Syslogger as io::Write>::flush does nothing.
SysloggerFlush ==
    /\ last' = WriterCall("flush", <<>>, Ok(Unit), <<>>)
    /\ UNCHANGED <<syslogger, syslogger_frame>>

\* Syslogger::new: the buffer is empty.
InitWriter ==
    /\ NoVm /\ NoLog /\ NoThreads
    /\ syslogger = [buf |-> <<>>, logged |-> <<>>, written |-> <<>>]
    /\ last = WriterCall("new", <<>>, Ok(Unit), <<>>)

NextWriter ==
    \/ \E buf \in WriteInputs : SysloggerWrite(buf)
    \/ SysloggerFlush

SpecWriter == InitWriter /\ [][NextWriter]_vars

----------------------------------------------------------------------------
(* The device tree: the cpu mask of create_timer_node *)

\* The largest num_cpus handed to create_timer_node.
MaxCpus == 64

\* A u32 is the set of the positions of its one bits, 0 .. 31.
U32_BITS == 32
U32Positions == 0 .. (U32_BITS - 1)

\* The u32 of a number below 2^16.
Bits(n) == {i \in 0 .. 15 : (n \div 2^i) % 2 = 1}

\* `x << k` on u32, as an Option: with overflow checks (debug builds) a
\* shift by 32 or more panics (None); without them (release builds) the
\* shift amount is taken modulo 32.  Bits shifted beyond bit 31 are lost
\* in both.
shl(x, k, overflow_checks) ==
    IF k >= U32_BITS /\ overflow_checks THEN None
    ELSE Some({b + (k % U32_BITS) : b \in x} \cap U32Positions)

\* `x - 1` on u32, as an Option: 0 - 1 panics with overflow checks and is
\* u32::MAX without them.
sub_one(x, overflow_checks) ==
    IF x = {} THEN (IF overflow_checks THEN None ELSE Some(U32Positions))
    ELSE LET low == CHOOSE b \in x : \A c \in x : b <= c
         IN  Some((x \ {low}) \cup (0 .. (low - 1)))

GIC_FDT_IRQ_TYPE_PPI == 1
GIC_FDT_IRQ_PPI_CPU_SHIFT == 8
GIC_FDT_IRQ_PPI_CPU_MASK == shl(Bits(255), GIC_FDT_IRQ_PPI_CPU_SHIFT, TRUE)[1]
IRQ_TYPE_LEVEL_LOW == 8

\* The fixed interrupt numbers of the timer device.
TimerIrqs == <<13, 14, 11, 10>>

\* cpu_mask of create_timer_node:
\* (((1 << num_cpus) - 1) << GIC_FDT_IRQ_PPI_CPU_SHIFT) & GIC_FDT_IRQ_PPI_CPU_MASK
\* in u32; None when the computation panics.
cpu_mask(num_cpus, overflow_checks) ==
    LET one_shl == shl(Bits(1), num_cpus, overflow_checks)
        minus == IF one_shl = None THEN None
                 ELSE sub_one(one_shl[1], overflow_checks)
        shifted == IF minus = None THEN None
                   ELSE shl(minus[1], GIC_FDT_IRQ_PPI_CPU_SHIFT, overflow_checks)
    IN  IF shifted = None THEN None
        ELSE Some(shifted[1] \cap GIC_FDT_IRQ_PPI_CPU_MASK)

\* The cells of the "interrupts" property: type, number and flags of each
\* of the four interrupts.
timer_reg_cells(mask) ==
    [i \in 1 .. (3 * Len(TimerIrqs)) |->
        CASE i % 3 = 1 -> Bits(GIC_FDT_IRQ_TYPE_PPI)
          [] i % 3 = 2 -> Bits(TimerIrqs[(i + 1) \div 3])
          [] OTHER -> mask \cup Bits(IRQ_TYPE_LEVEL_LOW)]

TimerCall(num_cpus, overflow_checks, mask, res) ==
    [op |-> "create_timer_node",
     args |-> [num_cpus |-> num_cpus, overflow_checks |-> overflow_checks],
     cpu_mask |-> mask, res |-> res]

\* One call of create_timer_node, in a build with or without overflow
\* checks: it panics, or the timer node carries the cells.
create_timer_node(num_cpus, overflow_checks) ==
    /\ LET mask == cpu_mask(num_cpus, overflow_checks)
       IN  last' = TimerCall(num_cpus, overflow_checks, mask,
                             IF mask = None THEN Err("panic")
                             ELSE Ok(timer_reg_cells(mask[1])))
    /\ UNCHANGED <<mem_vars, thread_vars, other_vars>>

InitTimer ==
    /\ NoVm /\ NoSyslogger /\ NoLog /\ NoThreads
    /\ last = [op |-> "none", args |-> None, cpu_mask |-> None, res |-> Ok(<<>>)]

NextTimer ==
    \E num_cpus \in 0 .. MaxCpus, overflow_checks \in BOOLEAN :
        create_timer_node(num_cpus, overflow_checks)

SpecTimer == InitTimer /\ [][NextTimer]_vars

----------------------------------------------------------------------------
(* Properties *)

\* The number of fixed guest-memory regions: their slot ids are 0 .. N-1.
NumFixed == num_regions(guest_mem)

ActiveSlots == DOMAIN mem_regions
FreeSlots == HeapItems(mem_slot_gaps)
OwnedPtrs == {mem_regions[s].ptr : s \in DOMAIN mem_regions}

\* The smallest id >= n outside `active`.
SmallestInactive(active, n) ==
    CHOOSE s \in n .. (n + Cardinality(active)) :
        s \notin active /\ \A t \in n .. (s - 1) : t \in active

\* C1: every successful add_memory_region returns the numerically smallest
\* slot id >= N that is not active at the moment of the call.
C1_SmallestInactiveSlot ==
    [][(last'.op = "add" /\ last'.res.ok) =>
          last'.res.val = Some(SmallestInactive(ActiveSlots, NumFixed))]_vars

\* C1 witness: an add took the smaller of several ids that were not active:
\* it reused an id while another id was in the pool as well.
C1_Witness ==
    /\ last.op = "add" /\ last.res.ok /\ ~last.minted
    /\ mem_slot_gaps # <<>>
    /\ \A s \in FreeSlots : last.res.val[1] < s

IntersectsFixed(gm, addr, size) ==
    \E i \in DOMAIN gm : \E p \in addr .. (addr + size - 1) :
        gm[i].guest_base <= p /\ p < gm[i].guest_base + gm[i].size

\* A call that returned the capacity error allocated no slot id, issued no
\* kernel request and changed neither the map, the pool nor the kernel.
C3_NoEffect ==
    (last'.op = "add" /\ last'.res = Err("ENOSPC")) =>
        /\ last'.sel = None
        /\ handed_out' = handed_out
        /\ last'.reqs = <<>>
        /\ mem_regions' = mem_regions
        /\ mem_slot_gaps' = mem_slot_gaps
        /\ kernel_slots' = kernel_slots

\* C3 as stated: add_memory_region fails with ENOSPC exactly when
\* [addr, addr + size) intersects a fixed region, and then has no effect.
C3_EnospcIffIntersects ==
    [][/\ last'.op = "add" =>
              ((last'.res = Err("ENOSPC")) <=>
                   IntersectsFixed(guest_mem, last'.guest_addr[1], last'.mem[1].size))
       /\ C3_NoEffect]_vars

\* C3 as amended: add_memory_region fails with ENOSPC exactly when
\* addr + size fits in the address type and [addr, addr + size) intersects
\* a fixed region (an adjacent range is accepted), and then has no effect.
C3_EnospcIffFitsAndIntersects ==
    [][/\ last'.op = "add" =>
              ((last'.res = Err("ENOSPC")) <=>
                   /\ last'.guest_addr[1] + last'.mem[1].size <= MaxAddr
                   /\ IntersectsFixed(guest_mem, last'.guest_addr[1], last'.mem[1].size))
       /\ C3_NoEffect]_vars

\* C3 witness: ENOSPC was returned for a range that starts inside a fixed
\* region while a region is active and an id is free.
C3_Witness ==
    /\ last.op = "add" /\ last.res = Err("ENOSPC")
    /\ ActiveSlots # {} /\ FreeSlots # {}

\* The guest-physical range the kernel holds for a slot meets [addr, addr + size).
MeetsSlot(kslots, s, addr, size) ==
    /\ s \in DOMAIN kslots
    /\ kslots[s].guest_phys_addr < addr + size
    /\ addr < kslots[s].guest_phys_addr + kslots[s].memory_size

\* C4 as stated: add_memory_region of a range (one that fits in the address
\* type) that overlaps a region added before and still active fails with
\* the InvalidArgument (EINVAL) or capacity (ENOSPC) error and leaves the
\* set of active slots unchanged.
C4_OverlapWithActiveRejected ==
    [][(/\ last'.op = "add"
        /\ last'.guest_addr[1] + last'.mem[1].size <= MaxAddr
        /\ \E s \in ActiveSlots :
               MeetsSlot(kernel_slots, s, last'.guest_addr[1], last'.mem[1].size)) =>
          /\ last'.res \in {Err("EINVAL"), Err("ENOSPC")}
          /\ DOMAIN mem_regions' = DOMAIN mem_regions]_vars

\* C4 witness: an add whose range overlaps an active added region and no
\* fixed region was passed on to the kernel, and failed with the kernel's
\* error.
C4_Witness ==
    /\ last.op = "add" /\ Len(last.reqs) = 1
    /\ last.res = Err("EEXIST")
    /\ \E s \in ActiveSlots :
           MeetsSlot(kernel_slots, s, last.guest_addr[1], last.mem[1].size)

C6_RemoveInactiveNotFound ==
    [][(last'.op = "remove" /\ last'.slot[1] \notin ActiveSlots) =>
          /\ last'.res = Err("ENOENT")
          /\ last'.reqs = <<>>
          /\ mem_regions' = mem_regions
          /\ mem_slot_gaps' = mem_slot_gaps
          /\ kernel_slots' = kernel_slots]_vars

\* C6 witness: ENOENT was returned for an id that was removed before (it is
\* in the pool).
C6_Witness ==
    /\ last.op = "remove" /\ last.res = Err("ENOENT")
    /\ last.slot[1] \in FreeSlots

\* C7: a successful remove_memory_region(slot) issued one kernel request,
\* clearing the slot with guest address 0, size 0 and a null host address;
\* afterwards the slot is not active, its id is in the pool and its mapping
\* is no longer held; removing the same slot again right away fails.
C7_RemoveClearsSlot ==
    [][/\ (last'.op = "remove" /\ last'.res.ok) =>
              LET slot == last'.slot[1]
              IN  /\ last'.reqs =
                         <<Request([slot |-> slot, flags |-> {}, guest_phys_addr |-> 0,
                                    memory_size |-> 0, userspace_addr |-> NullPtr],
                                   Ok(Unit))>>
                  /\ slot \in DOMAIN mem_regions
                  /\ slot \notin DOMAIN mem_regions'
                  /\ slot \in HeapItems(mem_slot_gaps')
                  /\ mem_regions[slot].ptr \notin {mem_regions'[s].ptr : s \in DOMAIN mem_regions'}
                  /\ slot \notin DOMAIN kernel_slots'
       /\ (/\ last.op = "remove" /\ last.res.ok
           /\ last'.op = "remove" /\ last'.slot = last.slot) => ~last'.res.ok]_vars

\* C7 witness: a slot was removed and removing it once more failed, while
\* another region stayed active.
C7_Witness ==
    /\ last.op = "remove" /\ last.res = Err("ENOENT")
    /\ last.slot[1] \in FreeSlots
    /\ ActiveSlots # {}

\* C8: when the kernel refuses the request of add_memory_region, the call
\* returns the kernel's error, the selected slot id is in the pool and not
\* active, the map is unchanged and does not hold the mapping.
C8_AddKernelErrorReleasesSlot ==
    [][(last'.op = "add" /\ Len(last'.reqs) = 1 /\ ~last'.reqs[1].res.ok) =>
          /\ last'.res = last'.reqs[1].res
          /\ last'.sel # None
          /\ last'.sel[1] \in HeapItems(mem_slot_gaps')
          /\ last'.sel[1] \notin DOMAIN mem_regions'
          /\ mem_regions' = mem_regions
          /\ last'.mem[1].ptr \notin {mem_regions'[s].ptr : s \in DOMAIN mem_regions'}]_vars

\* C8 witness: the kernel refused an add for which a new id had been minted
\* while another region was active.
C8_Witness ==
    /\ last.op = "add" /\ Len(last.reqs) = 1 /\ ~last.res.ok
    /\ last.minted
    /\ ActiveSlots # {}

\* C9: when the kernel refuses the clear request of remove_memory_region,
\* the call returns that error, the slot stays active with its mapping, and
\* the pool and the kernel's slots are unchanged.
C9_RemoveKernelErrorNoEffect ==
    [][(last'.op = "remove" /\ Len(last'.reqs) = 1 /\ ~last'.reqs[1].res.ok) =>
          /\ last'.res = last'.reqs[1].res
          /\ last'.slot[1] \in DOMAIN mem_regions'
          /\ mem_regions' = mem_regions
          /\ mem_slot_gaps' = mem_slot_gaps
          /\ kernel_slots' = kernel_slots]_vars

\* C9 witness: the kernel refused to clear an active slot.
C9_Witness ==
    /\ last.op = "remove" /\ Len(last.reqs) = 1 /\ ~last.res.ok
    /\ last.slot[1] \in ActiveSlots
    /\ FreeSlots # {}

\* C10: an add_memory_region that selects a slot id takes it from the pool
\* whenever the pool is not empty, minting no new id; it mints an id only
\* when the pool is empty, and that id is N plus the number of active added
\* regions.
C10_ReuseBeforeMint ==
    [][(last'.op = "add" /\ last'.sel # None) =>
          IF mem_slot_gaps # <<>>
          THEN /\ last'.sel[1] \in HeapItems(mem_slot_gaps)
               /\ ~last'.minted
               /\ handed_out' = handed_out
          ELSE /\ last'.minted
               /\ last'.sel[1] = NumFixed + Cardinality(ActiveSlots)
               /\ last'.sel[1] \notin handed_out
               /\ handed_out' = handed_out \cup {last'.sel[1]}]_vars

\* C10 witness: over two fixed regions, ids 2 and 3 were handed out, and
\* the last add reused id 2 while 3 was active.
C10_Witness ==
    /\ NumFixed = 2
    /\ last.op = "add" /\ last.res = Ok(Some(2)) /\ ~last.minted
    /\ ActiveSlots = {2, 3}
    /\ FreeSlots = {}

\* The kernel holds slot s registered to the host address of mapping mem.
RegisteredTo(kslots, s, mem) ==
    /\ s \in DOMAIN kslots
    /\ kslots[s].userspace_addr = mem.ptr
    /\ kslots[s].memory_size = mem.size

\* C11: the VM context owns the mapping of a slot for as long as the slot is
\* active.  After every call, each slot the kernel holds beyond the fixed
\* ones is a key of mem_regions whose mapping it is registered to, and each
\* key of mem_regions is registered so; and a mapping held before a call is
\* still held, unchanged and under the same id, after it, unless the call
\* was the successful remove_memory_region of that id.
C11_MappingOwnedWhileActive ==
    [][/\ \A s \in DOMAIN kernel_slots' :
              s >= NumFixed =>
                  /\ s \in DOMAIN mem_regions'
                  /\ RegisteredTo(kernel_slots', s, mem_regions'[s])
       /\ \A s \in DOMAIN mem_regions' :
              RegisteredTo(kernel_slots', s, mem_regions'[s])
       /\ \A s \in DOMAIN mem_regions :
              \/ s \in DOMAIN mem_regions' /\ mem_regions'[s] = mem_regions[s]
              \/ last'.op = "remove" /\ last'.res.ok /\ last'.slot = Some(s)]_vars

\* C11 witness: the kernel refused to clear a slot, which is still active
\* and registered to its mapping, next to another active slot.
C11_Witness ==
    /\ last.op = "remove" /\ Len(last.reqs) = 1 /\ ~last.res.ok
    /\ Cardinality(ActiveSlots) >= 2
    /\ RegisteredTo(kernel_slots, last.slot[1], mem_regions[last.slot[1]])

\* The threads inside a call.
Busy == {t \in Threads : threads[t].op # "idle"}

\* C12: a thread that is about to wait for the map lock does not hold the
\* pool lock, and whoever holds the pool lock holds the map lock (the map
\* lock is taken first); so no state is a deadlock (while a call is in
\* progress some call can take a step), and a thread that holds the map
\* lock, as every thread does once its kernel request was issued, is never
\* blocked: its call runs on to its return.
C12_LockOrderNoDeadlock ==
    /\ \A t \in Busy :
           /\ Ins(t) = "lock mem_regions" => ~Holds(t, "mem_slot_gaps")
           /\ Holds(t, "mem_slot_gaps") => Holds(t, "mem_regions")
           /\ threads[t].kres # None => Holds(t, "mem_regions")
           /\ Holds(t, "mem_regions") => ENABLED ThreadStep(t)
    /\ Busy # {} => \E t \in Busy : ENABLED ThreadStep(t)

\* C12 witness: one thread is in add_memory_region, holds both locks and
\* has its kernel answer, while the other, in remove_memory_region, waits
\* for the map lock.
C12_Witness ==
    \E t, u \in Threads :
        /\ threads[t].op = "add" /\ threads[t].kres # None
        /\ Holds(t, "mem_regions") /\ Holds(t, "mem_slot_gaps")
        /\ threads[u].op = "remove" /\ Ins(u) = "lock mem_regions"

\* The slot ids active, and those free, through some handle.
AllActive == UNION {DOMAIN HandleRegions(h) : h \in DOMAIN handles}
AllFree == UNION {HeapItems(HandleGaps(h)) : h \in DOMAIN handles}

\* C13: a handle made by try_clone shares the map and the pool with its
\* origin.  After every call all handles see the same map and the same
\* pool; a slot id active through any handle is not reported missing by a
\* remove or msync through any handle; an add through any handle takes its
\* id from the pool when an id is free through any handle; and a successful
\* add never returns an id that is active through any handle.
C13_CloneSharesBookkeeping ==
    [][/\ \A h, g \in DOMAIN handles' :
              /\ arcs'.regions[handles'[h].mem_regions] = arcs'.regions[handles'[g].mem_regions]
              /\ arcs'.gaps[handles'[h].mem_slot_gaps] = arcs'.gaps[handles'[g].mem_slot_gaps]
       /\ (last'.op \in {"remove", "msync"} /\ last'.slot[1] \in AllActive) =>
              last'.res # Err("ENOENT")
       /\ (last'.op = "add" /\ last'.sel # None /\ AllFree # {}) =>
              ~last'.minted /\ last'.sel[1] \in AllFree
       /\ (last'.op = "add" /\ last'.res.ok) => last'.res.val[1] \notin AllActive]_vars

\* C13 witness: with two handles, one slot id was freed through one handle
\* and added again through the other, another was added through one and
\* removed through the other, and the last call flushed a region through
\* the handle it was not added through.
C13_Witness ==
    /\ Len(handles) = 2
    /\ \E s \in AllActive \cap DOMAIN slot_via, t \in AllFree \cap DOMAIN slot_via :
           /\ slot_via[s].freed # None /\ slot_via[s].freed # Some(slot_via[s].added)
           /\ slot_via[t].freed # Some(slot_via[t].added)
           /\ last.op = "msync" /\ last.res.ok /\ last.slot = Some(s)
           /\ last.handle # slot_via[s].added

\* C14: KvmVm::new over N regions asks the kernel for region i under slot
\* id i, i = 0 .. N-1 in this order, read-write and without dirty logging,
\* and stops at the first refusal; it fails with the kernel's error when
\* the VM creation or one of these requests fails, and succeeds otherwise;
\* on success the kernel holds exactly these N slots and the map and the
\* pool are empty, so that the first region added gets slot id N.
C14_NewRegistersFixedRegions ==
    [][/\ last'.op = "new" =>
              LET reqs == last'.reqs
                  N == num_regions(guest_mem)
              IN  /\ Len(reqs) <= N
                  /\ \A i \in 1 .. Len(reqs) :
                         /\ reqs[i].region =
                                [slot |-> i - 1, flags |-> {},
                                 guest_phys_addr |-> guest_mem[i].guest_base,
                                 memory_size |-> guest_mem[i].size,
                                 userspace_addr |-> host_addr(i - 1)]
                         /\ i < Len(reqs) => reqs[i].res.ok
                  /\ ~last'.create.ok => reqs = <<>> /\ last'.res = last'.create
                  /\ (last'.create.ok /\ \E i \in 1 .. Len(reqs) : ~reqs[i].res.ok) =>
                         last'.res = reqs[Len(reqs)].res
                  /\ (last'.create.ok /\ \A i \in 1 .. Len(reqs) : reqs[i].res.ok) =>
                         Len(reqs) = N /\ last'.res = Ok(Unit)
                  /\ ~last'.res.ok => vm' = None
                  /\ last'.res.ok =>
                         /\ vm' # None
                         /\ mem_regions' = <<>> /\ mem_slot_gaps' = <<>>
                         /\ DOMAIN kernel_slots' = 0 .. (N - 1)
                         /\ \A i \in 0 .. (N - 1) :
                                /\ kernel_slots'[i].guest_phys_addr = guest_mem[i + 1].guest_base
                                /\ kernel_slots'[i].memory_size = guest_mem[i + 1].size
                                /\ kernel_slots'[i].flags = {}
       /\ (last.op = "new" /\ last.res.ok /\ last'.op = "add" /\ last'.res.ok) =>
              last'.res.val = Some(num_regions(guest_mem))]_vars

\* C14 witness: a VM context was created over two fixed regions, the kernel
\* holds slots 0 and 1 for them, and the first region added got slot id 2.
C14_Witness ==
    /\ vm # None /\ num_regions(guest_mem) = 2
    /\ DOMAIN kernel_slots = {0, 1, 2}
    /\ last.op = "add" /\ last.res = Ok(Some(2)) /\ last.minted
    /\ handed_out = {2}

\* C15: msync_memory_region(slot, offset, size) fails with ENOENT whenever
\* slot is not active (a fixed region's id, an id in the pool, an id never
\* handed out), fails (with EFAULT) when offset + size lies beyond the
\* slot's mapping, and whatever it returns it leaves the map, the pool and
\* the kernel's slots as they were.
C15_MsyncErrorsNoEffect ==
    [][last'.op = "msync" =>
          LET slot == last'.slot[1]
          IN  /\ slot \notin ActiveSlots => last'.res = Err("ENOENT")
              /\ (slot \in ActiveSlots
                    /\ last'.offset + last'.size > mem_regions[slot].size) =>
                     last'.res = Err("EFAULT")
              /\ mem_regions' = mem_regions
              /\ mem_slot_gaps' = mem_slot_gaps
              /\ kernel_slots' = kernel_slots]_vars

\* C15 witness: a flush that starts one past the end of an active slot's
\* mapping, with size 0, was refused, while another id is in the pool.
C15_Witness ==
    /\ last.op = "msync" /\ last.res = Err("EFAULT")
    /\ last.slot[1] \in ActiveSlots
    /\ last.size = 0 /\ last.offset = mem_regions[last.slot[1]].size + 1
    /\ FreeSlots # {}

Registered(irqfds, gsi, evt) == \E r \in irqfds : r.fd = evt /\ r.gsi = gsi

\* C19: register_irqfd(gsi, event) for a pair that is registered already
\* fails; a failed call leaves the registrations as they were; a successful
\* one adds exactly the registration asked for; and an event that is not
\* registered can be registered on any gsi, whatever else is registered on
\* that gsi or on others, unless the kernel is out of resources.
C19_DuplicateIrqfdRejected ==
    [][last'.op = "register_irqfd" =>
          LET a == last'.args
          IN  /\ Registered(kernel_irqfds, a.gsi, a.evt) => ~last'.res.ok
              /\ ~last'.res.ok => kernel_irqfds' = kernel_irqfds
              /\ last'.res.ok =>
                     kernel_irqfds' = kernel_irqfds \cup
                         {[fd |-> a.evt, gsi |-> a.gsi, resamplefd |-> a.resample_evt]}
              /\ ((\A r \in kernel_irqfds : r.fd # a.evt) /\ last'.res # Err("ENOMEM")) =>
                     last'.res.ok]_vars

\* C19 witness: two events are registered on one gsi, and registering one
\* of the pairs again was refused.
C19_Witness ==
    /\ last.op = "register_irqfd" /\ ~last.res.ok
    /\ Registered(kernel_irqfds, last.args.gsi, last.args.evt)
    /\ \E r \in kernel_irqfds : r.gsi = last.args.gsi /\ r.fd # last.args.evt

\* What unregister_irqfd(gsi, evt) leaves of the registrations: all but
\* the one of that pair.
WithoutPair(irqfds, gsi, evt) == {r \in irqfds : ~(r.fd = evt /\ r.gsi = gsi)}

C17_CheckCapabilityAnswer ==
    [][last'.op = "check_capability" =>
          LET kvm_cap == KvmCapTryFrom(last'.args)
          IN  /\ last'.res \in BOOLEAN
              /\ ~kvm_cap.ok => last'.res = FALSE
              /\ kvm_cap.ok =>
                   last'.res = (KvmCheckExtension(kernel_extensions, kvm_cap.val) = 1)
              /\ UNCHANGED <<mem_vars, thread_vars, other_vars>>]_vars

\* A capability for which the kernel answered 2 was reported as missing.
C17_Witness ==
    /\ last.op = "check_capability"
    /\ KvmCheckExtension(kernel_extensions, KvmCapTryFrom(last.args).val) > 1
    /\ last.res = FALSE

\* C18: KvmVm::check_capability(c) returns the architecture's answer whenever
\* there is one, whatever the generic answer would be; otherwise true for
\* DirtyLog, false for PvClock, and for PvClockSuspend whether the kernel's
\* answer to the raw query for KVM_CAP_KVMCLOCK_CTRL is 1.
C18_VmCheckCapabilityOrder ==
    last.op = "vm_check_capability" =>
        LET c == last.args.c
            arch == last.args.arch
        IN  /\ arch # None => last.res = arch[1]
            /\ arch = None /\ c = "DirtyLog" => last.res = TRUE
            /\ arch = None /\ c = "PvClock" => last.res = FALSE
            /\ arch = None /\ c = "PvClockSuspend" =>
                 /\ last.res = (KvmCheckExtension(kernel_extensions, KVM_CAP_KVMCLOCK_CTRL) = 1)
                 /\ Len(last.reqs) = 1
                 /\ last.reqs[1].arg = KVM_CAP_KVMCLOCK_CTRL

\* The architecture denied DirtyLog, which the generic answers grant.
C18_Witness ==
    /\ last.op = "vm_check_capability"
    /\ last.args.c = "DirtyLog"
    /\ last.args.arch = Some(FALSE)
    /\ last.res = FALSE

\* C21: set_gsi_routing(routes) with N routes, N = 0 included, hands the
\* kernel one table whose count field is N and whose i-th entry carries the
\* gsi of the i-th route and the type tag of its source, in input order.
C21_RoutingTableBuilt ==
    last.op = "set_gsi_routing" =>
        LET routes == last.args.routes
            table == last.reqs[1].arg
            TypeTag(route) == IF route.source.kind = "Irqchip"
                              THEN "KVM_IRQ_ROUTING_IRQCHIP"
                              ELSE "KVM_IRQ_ROUTING_MSI"
        IN  /\ Len(last.reqs) = 1
            /\ table.nr = Len(routes)
            /\ Len(table.entries) = Len(routes)
            /\ \A i \in 1 .. Len(routes) :
                   /\ table.entries[i].gsi = routes[i].gsi
                   /\ table.entries[i].type_ = TypeTag(routes[i])

\* C21 witness: a table of two routes, the message-signaled one first and
\* the controller pin second, was handed to the kernel in that order.
C21_Witness ==
    /\ last.op = "set_gsi_routing"
    /\ Len(last.args.routes) = 2
    /\ last.reqs[1].arg.nr = 2
    /\ last.reqs[1].arg.entries[1].type_ = "KVM_IRQ_ROUTING_MSI"
    /\ last.reqs[1].arg.entries[2].type_ = "KVM_IRQ_ROUTING_IRQCHIP"

\* C22: a successful set_gsi_routing(routes) leaves the kernel's table equal
\* to the entries of routes and nothing else, whatever the table was before;
\* a failed call leaves the table as it was.
C22_RoutingTableReplaced ==
    [][last'.op = "set_gsi_routing" =>
          LET routes == last'.args.routes
          IN  IF last'.res.ok
              THEN kernel_routing' = [i \in 1 .. Len(routes) |-> RoutingEntry(routes[i])]
              ELSE kernel_routing' = kernel_routing]_vars

\* C22 witness: a successful call with a single route left the kernel's
\* table with the entry of that route and no other.
C22_Witness ==
    /\ last.op = "set_gsi_routing" /\ last.res.ok
    /\ Len(last.args.routes) = 1
    /\ kernel_routing = <<RoutingEntry(last.args.routes[1])>>

\* C30 as stated: every slot id that enters the pool was active just before
\* and is no longer registered with the kernel.
C30_PooledWasActive ==
    [][\A s \in HeapItems(mem_slot_gaps') \ HeapItems(mem_slot_gaps) :
           /\ s \in DOMAIN mem_regions
           /\ s \notin DOMAIN kernel_slots']_vars

\* C30 as amended: every slot id that enters the pool is then neither active
\* nor registered with the kernel, and it entered in one of two ways: a
\* successful remove_memory_region of that id, which was active just before;
\* or an add_memory_region whose request the kernel refused, for the id it
\* had minted, which was never handed out and so never active.
C30_PooledIsTornDown ==
    [][\A s \in HeapItems(mem_slot_gaps') \ HeapItems(mem_slot_gaps) :
           /\ s \notin DOMAIN mem_regions'
           /\ s \notin DOMAIN kernel_slots'
           /\ \/ /\ last'.op = "remove" /\ last'.res.ok
                 /\ s = last'.slot[1]
                 /\ s \in DOMAIN mem_regions
              \/ /\ last'.op = "add" /\ ~last'.res.ok /\ last'.minted
                 /\ s = last'.sel[1]
                 /\ s \notin handed_out
                 /\ s \notin DOMAIN mem_regions]_vars

\* C30 witness: the only id in the pool is one that a refused add minted; it
\* was never active, and another region is active.
C30_Witness ==
    /\ last.op = "add" /\ ~last.res.ok /\ last.minted
    /\ HeapItems(mem_slot_gaps) = {last.sel[1]}
    /\ DOMAIN mem_regions # {}
    /\ last.sel[1] > Cardinality(DOMAIN mem_regions) + num_regions(guest_mem) - 1

\* The answer of the logger for a message of priority pri under level.
Passes(level, pri) ==
    CASE level.kind = "ShowAll" -> TRUE
      [] level.kind = "Silent" -> FALSE
      [] level.kind = "Priority" -> pri <= level.pri

\* The filters of the logger whose prefix file_path starts with.
Matching(ptr, file_path) ==
    {f \in Range(ptr[1].path_log_levels) : starts_with(file_path, f.path_prefix)}

\* C24: whatever filters were added and in whatever order, the filter list
\* has longer prefixes before shorter ones, and log_enabled(pri, file_path)
\* answers by the level of a longest filter prefix that file_path starts
\* with.
C24_LongestPrefixApplies ==
    state_ptr # None =>
        LET levels == state_ptr[1].path_log_levels
        IN  /\ \A i, j \in 1 .. Len(levels) :
                   i < j => StrLen(levels[i].path_prefix) >= StrLen(levels[j].path_prefix)
            /\ (last.op = "log_enabled" /\ Matching(state_ptr, last.args.file_path) # {}) =>
                   \E f \in Matching(state_ptr, last.args.file_path) :
                       /\ \A g \in Matching(state_ptr, last.args.file_path) :
                              StrLen(g.path_prefix) <= StrLen(f.path_prefix)
                       /\ last.res = Some(Passes(f.level, last.args.pri))

\* C24, the divergence: the longest prefix the file path starts with is
\* silenced, a shorter one shows all, and log_enabled answered Some(true).
C24_Witness ==
    /\ state_ptr # None
    /\ last.op = "log_enabled" /\ last.res = Some(TRUE)
    /\ \E f \in Matching(state_ptr, last.args.file_path) :
           /\ f.level.kind = "Silent"
           /\ \A g \in Matching(state_ptr, last.args.file_path) \ {f} :
                  StrLen(g.path_prefix) < StrLen(f.path_prefix)

\* C27: after init, for a file path no filter prefix matches,
\* log_enabled(pri, path) is Some(true) for every priority under ShowAll,
\* Some(false) for every priority under Silent, and under Priority(l) it is
\* Some(true) exactly when pri <= l.
C27_GlobalLevelDecides ==
    (last.op = "log_enabled" /\ state_ptr # None /\ Matching(state_ptr, last.args.file_path) = {}) =>
        LET log_level == state_ptr[1].log_level
        IN  /\ log_level.kind = "ShowAll" => last.res = Some(TRUE)
            /\ log_level.kind = "Silent" => last.res = Some(FALSE)
            /\ log_level.kind = "Priority" =>
                   last.res = Some(last.args.pri <= log_level.pri)

\* C27 witness: under the global level Priority(Error) a message of
\* priority Error, from a file no filter matches, is enabled.
C27_Witness ==
    /\ last.op = "log_enabled" /\ state_ptr # None
    /\ Matching(state_ptr, last.args.file_path) = {}
    /\ state_ptr[1].path_log_levels # <<>>
    /\ state_ptr[1].log_level = [kind |-> "Priority", pri |-> 3]
    /\ last.args.pri = 3 /\ last.res = Some(TRUE)

\* C28: log_enabled answers by the level of a filter whose prefix the file
\* path starts with when there is one, whatever the global level is, and by
\* the global level when there is none; the global level is the one last
\* given to set_log_level, and adding a filter or asking does not change it.
C28_FilterOverridesUnderPrefix ==
    [][state_ptr' # None =>
          /\ last'.op = "log_enabled" =>
                 IF Matching(state_ptr', last'.args.file_path) # {}
                 THEN \E f \in Matching(state_ptr', last'.args.file_path) :
                          last'.res = Some(Passes(f.level, last'.args.pri))
                 ELSE last'.res = Some(Passes(state_ptr'[1].log_level, last'.args.pri))
          /\ state_ptr'[1].log_level =
                 IF last'.op = "set_log_level" THEN last'.args
                 ELSE state_ptr[1].log_level]_vars

\* C28 witness: the global level is Silent, a filter shows all under its
\* prefix, and a Debug message from a file under the prefix is enabled.
C28_Witness ==
    /\ last.op = "log_enabled" /\ state_ptr # None
    /\ state_ptr[1].log_level.kind = "Silent"
    /\ last.args.pri = 7 /\ last.res = Some(TRUE)
    /\ \E f \in Matching(state_ptr, last.args.file_path) : f.level.kind = "ShowAll"

\* A call of a logging function fails silently: it leaves the logger as it
\* was, log_enabled answers None, echo_syslog answers NeverInitialized, and
\* log and push_descriptors reach no sink and no descriptor.
FailsSilently ==
    /\ last'.op \in {"log_enabled", "set_log_level", "add_path_log_level", "set_proc_name",
                     "echo_file", "echo_stderr", "echo_syslog", "push_descriptors", "log"}
           => UNCHANGED log_vars
    /\ last'.op = "log_enabled" => last'.res = None
    /\ last'.op = "echo_syslog" => last'.res = Err("NeverInitialized")
    /\ last'.op \in {"push_descriptors", "log"} => last'.res = {}

C26_InitOnce ==
    [][/\ state_ptr' # state_ptr /\ last'.op \in {"call_once", "init"} =>
              STATE_ONCE = "new" /\ state_ptr = None /\ last'.res = Some(TRUE)
       /\ STATE_ONCE = "done" => STATE_ONCE' = "done"
       /\ (STATE_ONCE = "done" /\ state_ptr = None) => state_ptr' = None
       /\ state_ptr # None => state_ptr' # None
       /\ last'.op = "init" =>
              IF last'.args.ran
              THEN last'.res.ok <=> state_ptr # None
              ELSE last'.res = IF state_ptr # None THEN Ok(Unit) ELSE Err("Poisoned")]_vars

\* C26 witness: a call of init() that did not construct the state returned
\* Ok, and the level set to Silent before it is still Silent.
C26_Witness ==
    /\ last.op = "init" /\ ~last.args.ran /\ last.res = Ok(Unit)
    /\ state_ptr # None
    /\ state_ptr[1].log_level.kind = "Silent"
    /\ state_ptr[1].path_log_levels # <<>>

C29_FdtWrite ==
    fdt # None =>
        LET start == (AARCH64_PHYS_MEM_START + fdt.args.fdt_load_offset) % (MaxAddr + 1)
            max == fdt.args.fdt_max_size
            size == Cardinality(fdt.written)
        IN  /\ (fdt.write_res # None \/ fdt.written # {}) =>
                   /\ fdt.built = Len(BuildSteps) /\ fdt.finished
                   /\ ~fdt.running
            /\ fdt.written = {start + k : k \in 0 .. size - 1}
            /\ size <= max
            /\ fdt.written \subseteq UNION {gm.guest_base .. region_end(gm) - 1 :
                                                gm \in Range(guest_mem)}
            /\ fdt.write_res # None =>
                   /\ (~fdt.write_res[1].ok \/ size < max) =>
                          last.res = Err("FdtGuestMemoryWriteError")
                   /\ (fdt.write_res[1].ok /\ size = max) => last.res = Ok(Unit)
                   /\ fdt.write_res[1].ok => fdt.write_res[1].val = size
                   /\ ~fdt.write_res[1].ok => size = 0
            /\ (~fdt.running /\ last.res.ok) => fdt.write_res # None /\ size = max

\* C29 witness: a call with a buffer of two bytes wrote one byte, up to the
\* end of guest memory, and returned FdtGuestMemoryWriteError.
C29_Witness ==
    /\ fdt # None /\ ~fdt.running
    /\ fdt.args.fdt_max_size = 2
    /\ fdt.write_res # None /\ fdt.write_res[1] = Ok(1)
    /\ Cardinality(fdt.written) = 1
    /\ last = FdtCall(fdt.args, Err("FdtGuestMemoryWriteError"))

\* C35: add_memory_region fails with EOVERFLOW exactly when guest address
\* + mapping size does not fit in the address type, whether or not the
\* range meets a fixed region; the call then selects no slot id, issues no
\* kernel request and leaves the map, the pool and the kernel's slots as
\* they are.
C35_OverflowFirstNoEffect ==
    [][last'.op = "add" =>
          /\ (last'.res = Err("EOVERFLOW")) <=>
                 (last'.guest_addr[1] + last'.mem[1].size > MaxAddr)
          /\ last'.res = Err("EOVERFLOW") =>
                 /\ last'.sel = None /\ ~last'.minted
                 /\ last'.reqs = <<>>
                 /\ UNCHANGED <<mem_regions, mem_slot_gaps, kernel_slots, handed_out>>]_vars

\* C35 witness: EOVERFLOW was returned for a range that starts inside a
\* fixed region, while a region is active and an id is in the pool.
C35_Witness ==
    /\ last.op = "add" /\ last.res = Err("EOVERFLOW")
    /\ \E i \in DOMAIN guest_mem :
           /\ guest_mem[i].guest_base <= last.guest_addr[1]
           /\ last.guest_addr[1] < region_end(guest_mem[i])
    /\ DOMAIN mem_regions # {} /\ mem_slot_gaps # <<>>

\* C32: after any sequence of calls the free pool holds no id twice, and
\* the active ids together with the free ids are exactly the range
\* N .. N + |active| + |free| - 1; so with an empty pool the active ids are
\* N .. N + |active| - 1 and the id minted next, N + |active|, is not active.
C32_SlotIdsDense ==
    LET free == Len(mem_slot_gaps)
        active == Cardinality(ActiveSlots)
    IN  /\ Cardinality(FreeSlots) = free
        /\ ActiveSlots \cup FreeSlots = NumFixed .. (NumFixed + active + free - 1)
        /\ mem_slot_gaps = <<>> =>
               /\ ActiveSlots = NumFixed .. (NumFixed + active - 1)
               /\ NumFixed + active \notin ActiveSlots

\* C32 witness: after failed and successful adds and a remove, the lowest
\* id is in the pool below an active one.
C32_Witness ==
    /\ NumFixed \in FreeSlots /\ NumFixed + 1 \in ActiveSlots
    /\ last.op = "add" /\ ~last.res.ok /\ last.sel = Some(NumFixed)

\* C34: between calls, the slot ids the kernel holds a registration for are
\* the fixed ids 0 .. N-1 and the keys of the active-slot map.  The
\* registration of the slot a successful add_memory_region returned holds
\* the guest address, the size, the host address and the two flags of that
\* call, and it stays as it is for as long as the slot is active.
C34_KernelRefined ==
    /\ [](DOMAIN kernel_slots = (0 .. (NumFixed - 1)) \cup ActiveSlots)
    /\ [](\A s \in DOMAIN kernel_slots : kernel_slots[s].memory_size > 0)
    /\ [][/\ (last'.op = "add" /\ last'.res.ok) =>
                 LET s == last'.res.val[1]
                 IN  /\ s \in DOMAIN mem_regions' /\ s \notin DOMAIN mem_regions
                     /\ mem_regions'[s] = last'.mem[1]
                     /\ kernel_slots'[s] =
                          [flags |-> {f \in {"KVM_MEM_READONLY", "KVM_MEM_LOG_DIRTY_PAGES"} :
                                         \/ f = "KVM_MEM_READONLY" /\ last'.read_only
                                         \/ f = "KVM_MEM_LOG_DIRTY_PAGES"
                                                /\ last'.log_dirty_pages},
                           guest_phys_addr |-> last'.guest_addr[1],
                           memory_size |-> last'.mem[1].size,
                           userspace_addr |-> last'.mem[1].ptr]
          /\ \A s \in DOMAIN mem_regions \cap DOMAIN mem_regions' :
                 kernel_slots'[s] = kernel_slots[s]
          /\ \A s \in DOMAIN mem_regions' \ DOMAIN mem_regions :
                 last'.op = "add" /\ last'.res = Ok(Some(s))]_vars

\* C34 witness: a read-only region with dirty logging was added under an id
\* taken from the pool, next to an active read-write region.
C34_Witness ==
    /\ last.op = "add" /\ last.res.ok /\ ~last.minted
    /\ last.read_only /\ last.log_dirty_pages
    /\ kernel_slots[last.res.val[1]].flags = {"KVM_MEM_READONLY", "KVM_MEM_LOG_DIRTY_PAGES"}
    /\ \E s \in ActiveSlots : kernel_slots[s].flags = {}

\* C31: from the selection of its slot id to its return a call of
\* add_memory_region holds both locks; the id it has selected is selected
\* by no other call in progress and, until the call commits, is neither
\* active nor in the pool; and a call that succeeds returns the id it
\* selected, which was not a key of the map before, so two successful calls
\* return the same id only after it was removed in between.
C31_AddIsCriticalSection ==
    [][\A t \in Threads :
          /\ (threads'[t].op = "add" /\ threads'[t].sel # None) =>
                 /\ mutexes'["mem_regions"] = Some(t)
                 /\ mutexes'["mem_slot_gaps"] = Some(t)
                 /\ \A u \in Threads \ {t} :
                        threads'[u].op = "add" => threads'[u].sel # threads'[t].sel
                 /\ threads'[t].res = None =>
                        /\ threads'[t].sel[1] \notin DOMAIN mem_regions'
                        /\ threads'[t].sel[1] \notin HeapItems(mem_slot_gaps')
          /\ (threads'[t].op = "add" /\ threads[t].res = None /\ threads'[t].res # None) =>
                 IF threads'[t].res[1].ok
                 THEN /\ threads'[t].res[1] = Ok(threads[t].sel)
                      /\ threads[t].sel[1] \notin DOMAIN mem_regions
                      /\ mem_regions' = MapInsert(mem_regions, threads[t].sel[1],
                                                  threads[t].mem[1])
                 ELSE /\ mem_regions' = mem_regions
                      /\ threads[t].sel[1] \in HeapItems(mem_slot_gaps')]_vars

\* C31 witness: both threads are in add_memory_region; one has its id
\* registered and kept in the map next to a slot the other one added
\* before, while the other waits for the map lock.
C31_Witness ==
    \E t, u \in Threads :
        /\ threads[t].op = "add" /\ threads[t].res = Some(Ok(threads[t].sel))
        /\ Cardinality(DOMAIN mem_regions) = 2
        /\ threads[u].op = "add" /\ Ins(u) = "lock mem_regions"

\* C33: remove_memory_region holds the map lock from its membership check
\* to its return.  An id in the pool has no registration in the kernel, and
\* the id a call of add_memory_region has selected and not yet requested
\* has none either and is not the id of a removal in progress.
C33_RemovedIdClearedBeforeReuse ==
    /\ \A t \in Threads :
           (threads[t].op = "remove" /\ Ins(t) # "lock mem_regions") =>
               Holds(t, "mem_regions")
    /\ \A s \in HeapItems(mem_slot_gaps) : s \notin DOMAIN kernel_slots
    /\ \A t \in Threads :
           (threads[t].op = "add" /\ threads[t].sel # None /\ threads[t].kres = None) =>
               /\ threads[t].sel[1] \notin DOMAIN kernel_slots
               /\ \A u \in Threads \ {t} :
                      ~(/\ threads[u].op = "remove"
                        /\ threads[u].slot = threads[t].sel
                        /\ threads[u].pc > 1)

\* C33 witness: an add has selected, from the pool, the id that the other
\* thread, now waiting for the map lock, asks to remove again.
C33_Witness ==
    \E t, u \in Threads :
        /\ threads[t].op = "add" /\ threads[t].sel # None /\ threads[t].kres = None
        /\ threads[t].sel[1] \in handed_out
        /\ mem_regions # <<>>
        /\ threads[u].op = "remove" /\ threads[u].slot = threads[t].sel
        /\ Ins(u) = "lock mem_regions"

\* C36: a handle is constructed as a KvmVcpu and changes its form only
\* once, from KvmVcpu to Runnable, in a call of to_runnable, which returns
\* Ok; a Runnable handle stays Runnable in every step; run returns
\* Ok(VcpuExit::Unknown) and request_interrupt_window returns Ok(()), and
\* both leave the handle in the form it has.
C36_VcpuLifecycle ==
    [][/\ \A i \in DOMAIN vcpus :
              /\ i \in DOMAIN vcpus'
              /\ vcpus[i].kind = "Runnable" => vcpus'[i].kind = "Runnable"
              /\ vcpus'[i].kind # vcpus[i].kind =>
                     /\ last'.op = "to_runnable" /\ last'.args.vcpu = i
                     /\ vcpus[i].kind = "KvmVcpu" /\ vcpus'[i].kind = "Runnable"
       /\ \A i \in DOMAIN vcpus' \ DOMAIN vcpus : vcpus'[i].kind = "KvmVcpu"
       /\ (last'.op = "to_runnable" /\ last' # last) =>
              /\ last'.res = Ok(Unit)
              /\ vcpus[last'.args.vcpu].kind = "KvmVcpu"
              /\ vcpus'[last'.args.vcpu].kind = "Runnable"
       /\ last'.op = "run" =>
              /\ last'.res = Ok(<<"VcpuExit", "Unknown">>)
              /\ vcpus[last'.args.vcpu].kind = "Runnable"
              /\ vcpus'[last'.args.vcpu].kind = "Runnable"
       /\ last'.op = "request_interrupt_window" =>
              /\ last'.res = Ok(Unit)
              /\ vcpus'[last'.args.vcpu].kind = vcpus[last'.args.vcpu].kind]_vars

\* C36 witness: request_interrupt_window was called on a Runnable handle
\* that has been run, while another handle is still a KvmVcpu.
C36_Witness ==
    /\ last.op = "request_interrupt_window"
    /\ vcpus[last.args.vcpu].kind = "Runnable"
    /\ vcpus[last.args.vcpu].ran # {}
    /\ \E i \in DOMAIN vcpus : vcpus[i].kind = "KvmVcpu"

\* What C37 says of the requests: register_irqfd sends one request, for the
\* event and the gsi, with the resample flag and the resample event's
\* descriptor exactly when resample_event is given and with no flag and no
\* descriptor otherwise; unregister_irqfd sends one request with the
\* deassign flag alone.
IrqfdRequestsAsGiven ==
    /\ last'.op = "register_irqfd" =>
           /\ Len(last'.reqs) = 1
           /\ last'.reqs[1].arg.fd = last'.args.evt
           /\ last'.reqs[1].arg.gsi = last'.args.gsi
           /\ IF last'.args.resample_evt # None
              THEN /\ last'.reqs[1].arg.flags = {"KVM_IRQFD_FLAG_RESAMPLE"}
                   /\ last'.reqs[1].arg.resamplefd = last'.args.resample_evt[1]
              ELSE /\ last'.reqs[1].arg.flags = {}
                   /\ last'.reqs[1].arg.resamplefd = 0
    /\ last'.op = "unregister_irqfd" =>
           /\ Len(last'.reqs) = 1
           /\ last'.reqs[1].arg.fd = last'.args.evt
           /\ last'.reqs[1].arg.gsi = last'.args.gsi
           /\ last'.reqs[1].arg.flags = {"KVM_IRQFD_FLAG_DEASSIGN"}
           /\ last'.reqs[1].arg.resamplefd = 0

\* Would a registration of the pair be accepted now, by a kernel that is
\* not short of resources.
CanRegister(irqfds, gsi, evt) ==
    \A r \in {None} \cup {Some(e) : e \in Events \ {evt}} :
        register_irqfd(irqfds, gsi, evt, r, FALSE).res.ok

RECURSIVE TerminatedLines(_)
TerminatedLines(s) ==
    IF find(s, LF) = None THEN <<>>
    ELSE <<SubSeq(s, 1, find(s, LF)[1])>>
             \o TerminatedLines(SubSeq(s, find(s, LF)[1] + 2, Len(s)))

\* The text after the last newline.
Unterminated(s) ==
    IF rfind(s, LF) = None THEN s ELSE SubSeq(s, rfind(s, LF)[1] + 2, Len(s))

NonEmpty(line) == line # <<>>

\* C38: every write returns the length of its input; the lines handed to
\* log() are the newline-terminated lines of everything written, each once
\* and in order; the text after the last newline is in the buffer; a write
\* without a newline logs nothing.
C38_EveryTerminatedLineLogged ==
    /\ last.op = "write" =>
           /\ last.res = Ok(Len(last.args.buf))
           /\ find(last.args.buf, LF) = None => last.logs = <<>>
    /\ syslogger.logged = TerminatedLines(syslogger.written)
    /\ syslogger.buf = Unterminated(syslogger.written)

\* What holds of write instead: the returned length, the buffer, and the
\* non-empty lines, each logged once and in order; every logged line is a
\* terminated line.
SysloggerNonEmptyLinesLogged ==
    /\ last.op = "write" =>
           /\ last.res = Ok(Len(last.args.buf))
           /\ find(last.args.buf, LF) = None => last.logs = <<>>
    /\ syslogger.buf = Unterminated(syslogger.written)
    /\ SelectSeq(syslogger.logged, NonEmpty)
           = SelectSeq(TerminatedLines(syslogger.written), NonEmpty)
    /\ Len(syslogger.logged) <= Len(TerminatedLines(syslogger.written))

\* C38 witness: a write that ends a line with a newline was made, after a
\* write that left text in the buffer, and a terminated line was not logged.
C38_Witness ==
    /\ last.op = "write" /\ find(last.args.buf, LF) # None
    /\ syslogger.written # from_utf8_lossy(last.args.buf)
    /\ syslogger.logged # TerminatedLines(syslogger.written)

\* The mask the device tree binding asks for: one bit per CPU from bit 8
\* on, for at most eight CPUs.
ExpectedCpuMask(num_cpus) ==
    IF num_cpus <= 8 THEN {8 + c : c \in 0 .. (num_cpus - 1)} ELSE 8 .. 15

\* C39: for every num_cpus the cpu mask is computed without overflow and
\* has exactly bits 8 .. 8+num_cpus-1 set for num_cpus <= 8 and is 0xff00
\* for num_cpus >= 8.
C39_CpuMask ==
    last.op = "create_timer_node" =>
        /\ last.res.ok
        /\ last.cpu_mask = Some(ExpectedCpuMask(last.args.num_cpus))
        /\ \A i \in 1 .. Len(TimerIrqs) :
               last.res.val[3 * i] =
                   ExpectedCpuMask(last.args.num_cpus) \cup Bits(IRQ_TYPE_LEVEL_LOW)

\* What holds of the mask instead: it is as expected for num_cpus below 32
\* in every build; from 32 on the call panics with overflow checks, and
\* without them the mask is that of num_cpus modulo 32.
CpuMaskBelow32 ==
    last.op = "create_timer_node" =>
        IF last.args.num_cpus < U32_BITS
        THEN /\ last.res.ok
             /\ last.cpu_mask = Some(ExpectedCpuMask(last.args.num_cpus))
        ELSE IF last.args.overflow_checks
        THEN last.res = Err("panic") /\ last.cpu_mask = None
        ELSE /\ last.res.ok
             /\ last.cpu_mask = Some(ExpectedCpuMask(last.args.num_cpus % U32_BITS))

\* C39 witness: create_timer_node was called for 32 CPUs in a build without
\* overflow checks and the mask is empty.
C39_Witness ==
    /\ last.op = "create_timer_node"
    /\ last.args.num_cpus = 32 /\ ~last.args.overflow_checks
    /\ last.cpu_mask = Some({})

====
